---- MODULE Spec2Model ----
(***************************************************************************)
(* Verification model of the wallet-monitoring service: the API key store  *)
(* (src/src/api_auth.py), the daily rate limiter (src/src/rate_limiter.py),*)
(* the signal API handlers (src/src/api_service.py), the billing webhooks  *)
(* (src/src/billing.py) and the alert engine (src/src/wallet_monitor.py).  *)
(*                                                                         *)
(* Time is an integer clock `now`.  Configuration values that the source   *)
(* reads from the environment (config.py) are given small values that keep *)
(* the order of the defaults (free < pro < elite, cooldown < state TTL).   *)
(***************************************************************************)
EXTENDS Integers, Sequences, FiniteSets, TLC

VARIABLES
    now,            \* time.time(), in model time units
    tz,             \* UTC offset of the host's local time zone (local - UTC)
    api_keys,       \* table api_keys: set of rows
    counters,       \* RateLimiter._counters: key_hash -> <<count, last_reset>>
    resp,           \* last HTTP response written by ApiHandler
    obs,            \* observer: per key_hash, the authenticated requests of the day
    subsTable,      \* which CREATE TABLE made table subscriptions
    subscriptions,  \* table subscriptions: sequence of rows (rowid order)
    billing,        \* observer: per external subscription id, what the webhooks did
    chain,          \* per wallet, its transaction signatures on chain, newest first
    _last_sig_by_wallet,  \* wallet -> head signature of the last fetch
    _seen_signatures,     \* OrderedDict signature -> timestamp, as a sequence of pairs
    _last_alert_at,       \* wallet -> timestamp of the last mark_alert
    alerts,         \* main_async's alert list
    alerts_queue,   \* the ring shared with the API service
    state_db,       \* the sqlite state file: last_signatures, seen_signatures, last_alerts
    df,             \* wallets whose baseline passes GAIN_FILTER and WIN_RATE_FILTER
    watchlist,      \* the wallets main_async scans
    loop,           \* position of main_async: "stopped", "top" or "gather"
    save_counter,   \* main_async's save_counter
    pc,             \* per wallet, position of its scan_wallet_async task
    batches,        \* per wallet, the batches its task has still to process
    starts,         \* how many times main_async has been started
    emit,           \* observer: per wallet, its latest alert and the time since the one before
    primaries,      \* observer: per signature, the alerts emitted with it as primary
    endpoints,      \* AsyncRpcManager.endpoints
    index,          \* AsyncRpcManager.index, counted from 1
    circuit_state,  \* endpoint -> [failures, opened_at, state]
    calls,          \* per caller, the position of its _call_jsonrpc
    breaker,        \* observer: how long after its latest opening each endpoint got I/O
    _watchlist_usage, \* the OrderedDict's keys, least recently registered first
    scheduled,      \* the wallets of list(watchlist) whose scan task has not started yet
    evicted,        \* observer: the wallets evict_watchlist_if_needed removed last
    promoted,       \* observer: the wallets auto-promotion has inserted so far
    collected,      \* observer: what garbage_collect_state was last given
    snapshot,       \* observer: the state save_state was last given, and when it was reloaded
    CONFIG,         \* dry_run, copy_trader_enabled, discord_webhook (set or empty)
    _sent_alerts,   \* send_discord_alert_async._sent_alerts: dedup key -> time of the send
    _last_failure,  \* send_discord_alert_async._last_failure: wallet -> time of the failure
    outbound,       \* observer: the outbound side effects performed for alerts, in order
    price_cache,    \* TokenPriceCache: the mints with a cached price, and that price
    estimate,       \* observer: the transactions last estimated and the estimator's results
    LAST_LOOP_TS,   \* gauge wallet_mainloop_timestamp: when the last scan cycle started, 0.0 before the first
    health,         \* observer: the last answer to GET /healthz, by which listener, when, and the gauge then
    sem,            \* asyncio.Semaphore._value: the free permits of main_async's scan semaphore
    tasks,          \* per wallet of the cycle, where its scan_wallet_async task is
    cycle,          \* position of main_async's while loop, or of the process on its way out
    stopped_by,     \* observer: what ended the loop, a signal or an exception
    _sent_cache,    \* send_discord_system_notification_async._sent_cache
    notified,       \* observer: the system notifications posted to the webhook, in order
    exit_saves,     \* observer: how many times save_on_exit ran save_state
    fanout,         \* observer: for the last alert of the alert branch, whether the webhook fan-out was called and how the task went on
    filter_call,    \* the last call of filter_new_signatures: arguments, state before, result
    batch_call,     \* the last call of build_signature_batches: argument and result
    _blocked_alerts,\* the blocked-alerts list of scan_wallet_async: wallet and reason of each entry
    verdict,        \* observer: the inputs of the last batch that went through the filters, and the state before it
    picked          \* observer: per wallet, the non-empty increments its scans selected, in scan order

keyVars == <<api_keys>>
rateVars == <<counters, obs>>
billVars == <<subsTable, subscriptions, billing>>

stateVars == <<_last_sig_by_wallet, _seen_signatures, _last_alert_at, state_db>>
taskVars == <<loop, starts, save_counter, pc, batches>>
alertVars == <<alerts, alerts_queue, emit, primaries>>
scanVars == <<chain, df, watchlist, stateVars, taskVars, alertVars>>

rpcVars == <<endpoints, index, circuit_state, calls, breaker>>

lruVars == <<_watchlist_usage, scheduled, evicted, promoted>>

gcVars == <<collected>>

storeVars == <<snapshot>>

dispatchVars == <<CONFIG, _sent_alerts, _last_failure, outbound>>

estVars == <<price_cache, estimate>>

healthVars == <<LAST_LOOP_TS, health>>

loopVars == <<sem, tasks, cycle, stopped_by, _sent_cache, notified, exit_saves>>

fanVars == <<fanout>>

sigVars == <<filter_call, batch_call>>

gauntletVars == <<_blocked_alerts, verdict>>

pickVars == <<picked>>

lateVars == <<estVars, healthVars, loopVars, fanVars, sigVars, gauntletVars, pickVars>>

moreVars == <<lruVars, gcVars, storeVars, dispatchVars, lateVars>>

restVars == <<rpcVars, moreVars>>

vars == <<now, tz, resp, keyVars, rateVars, billVars, scanVars, restVars>>

-----------------------------------------------------------------------------
(* Bounds of the model *)

DayLen == 3         \* time units in one UTC day
MaxNow == 3         \* the clock stops here
MaxTz == 1          \* UTC offsets range over -MaxTz..MaxTz
MaxRequests == 5    \* authenticated requests of one key in one UTC day

(* Configuration (config.py), scaled *)

RATE_LIMIT_FREE == 2
RATE_LIMIT_PRO == 3
RATE_LIMIT_ELITE == 4

Tiers == {"free", "pro", "elite"}
KeyTokens == {"daas_1"}             \* what generate_key can return
Headers == KeyTokens \cup {"daas_0", ""}  \* x-api-key: a key, an unknown token, none
NoExpiry == -1                      \* expires_at IS NULL
ExpiryChoices == {NoExpiry, 0, 2}   \* expires_at values given to create_key
NoHeader == ""                      \* request without x-api-key

-----------------------------------------------------------------------------
(* ApiAuth *)

hash_key(api_key) == "sha256(" \o api_key \o ")"

RowsOf(key_hash) == {r \in api_keys : r.key_hash = key_hash}

\* INSERT INTO api_keys ... VALUES (?, ?, ?, ?, 1)
create_key(api_key, tier, expires_at) ==
    api_keys \cup {[key_hash |-> hash_key(api_key), tier |-> tier,
                    expires_at |-> expires_at, is_active |-> 1]}

\* Python truthiness of expires_at: None and 0 are falsy
Truthy(expires_at) == expires_at # NoExpiry /\ expires_at # 0

\* <<>> is None, <<tier, TRUE>> is (tier, bool(is_active))
validate_key(api_key) ==
    LET rows == RowsOf(hash_key(api_key)) IN
    IF rows = {} THEN <<>>
    ELSE LET row == CHOOSE r \in rows : TRUE IN
         IF Truthy(row.expires_at) /\ now > row.expires_at THEN <<>>
         ELSE IF row.is_active = 0 THEN <<>>
         ELSE <<row.tier, row.is_active # 0>>

\* UPDATE api_keys SET is_active = 0 WHERE key_hash = hash_key(api_key)
deactivate_key(api_key) ==
    {IF r.key_hash = hash_key(api_key) THEN [r EXCEPT !.is_active = 0] ELSE r
        : r \in api_keys}

\* UPDATE api_keys SET tier = ? WHERE key_hash = hash_key(api_key)
update_tier(api_key, new_tier) ==
    {IF r.key_hash = hash_key(api_key) THEN [r EXCEPT !.tier = new_tier] ELSE r
        : r \in api_keys}

-----------------------------------------------------------------------------
(* RateLimiter *)

limits(tier) ==
    CASE tier = "free" -> RATE_LIMIT_FREE
      [] tier = "pro" -> RATE_LIMIT_PRO
      [] tier = "elite" -> RATE_LIMIT_ELITE
      [] OTHER -> RATE_LIMIT_FREE

UtcDay(t) == t \div DayLen

\* utcnow().replace(hour=0, ...) is the naive UTC midnight; .timestamp() reads a
\* naive datetime as local time, which shifts the result by the UTC offset
_get_reset_time == UtcDay(now) * DayLen - tz

\* defaultdict(lambda: (0, time.time()))
CounterOf(api_key_hash) ==
    IF api_key_hash \in DOMAIN counters THEN counters[api_key_hash] ELSE <<0, now>>

\* check_limit admitting while count <= limit
check_limit_inclusive(api_key_hash, tier) ==
    LET limit == limits(tier)
        reset_time == _get_reset_time
        stored == CounterOf(api_key_hash)
        rolled == stored[2] < reset_time
        count == IF rolled THEN 0 ELSE stored[1]
        last_reset == IF rolled THEN reset_time ELSE stored[2]
        remaining == IF limit - count > 0 THEN limit - count ELSE 0
        allowed == count <= limit
        count2 == IF allowed THEN count + 1 ELSE count
    IN  [allowed |-> allowed, remaining |-> remaining, limit |-> limit,
         counters |-> (api_key_hash :> <<count2, last_reset>>) @@ counters]

check_limit(api_key_hash, tier) ==
    LET limit == limits(tier)
        reset_time == _get_reset_time
        stored == CounterOf(api_key_hash)
        rolled == stored[2] < reset_time
        count == IF rolled THEN 0 ELSE stored[1]
        last_reset == IF rolled THEN reset_time ELSE stored[2]
        remaining == IF limit - count > 0 THEN limit - count ELSE 0
        allowed == count < limit
        count2 == IF allowed THEN count + 1 ELSE count
    IN  [allowed |-> allowed, remaining |-> remaining, limit |-> limit,
         counters |-> (api_key_hash :> <<count2, last_reset>>) @@ counters]

-----------------------------------------------------------------------------
(* ApiHandler: the two data endpoints *)

\* <<>> is None, else <<api_key, tier, is_active>>
_authenticate(header) ==
    IF header = NoHeader THEN <<>>
    ELSE LET result == validate_key(header) IN
         IF result = <<>> THEN <<>> ELSE <<header>> \o result

Endpoints == {"signals", "score"}

NoResp ==
    [status |-> 0, header |-> NoHeader, body |-> "", signals |-> <<>>, remaining |-> -1,
     limit |-> -1]

API_SIGNALS_TAIL == 1                 \* alerts_queue[-100:]

\* json.dumps has no encoder for the datetime every alert_event carries as "timestamp"
JsonSerializable(alert_event) ==
    "timestamp" \in DOMAIN alert_event => alert_event.timestamp.type # "datetime"

\* _handle_signals once the request is admitted: signals = list(alerts_queue[-100:]),
\* status line and headers are sent, then json.dumps({"signals": ..., "count": ...}).
\* When json.dumps raises TypeError nothing is written after the headers.
SignalsBody ==
    LET signals == SubSeq(alerts_queue,
                          IF Len(alerts_queue) > API_SIGNALS_TAIL
                          THEN Len(alerts_queue) - API_SIGNALS_TAIL + 1 ELSE 1,
                          Len(alerts_queue))
    IN  IF \A i \in DOMAIN signals : JsonSerializable(signals[i])
        THEN [body |-> "signals", signals |-> signals]
        ELSE [body |-> "", signals |-> <<>>]


RequestsToday(key_hash) ==
    IF key_hash \in DOMAIN obs /\ obs[key_hash].day = UtcDay(now)
    THEN obs[key_hash].requests ELSE 0

\* the authenticated requests of key_hash in the current UTC day, this one included
ObsNext(key_hash, tier, rl) ==
    LET old == IF key_hash \in DOMAIN obs /\ obs[key_hash].day = UtcDay(now)
               THEN obs[key_hash]
               ELSE [day |-> UtcDay(now), requests |-> 0, admitted |-> 0,
                     tier |-> tier, steady |-> TRUE]
    IN  (key_hash :>
            [day |-> UtcDay(now),
             requests |-> old.requests + 1,
             admitted |-> old.admitted + (IF rl.allowed THEN 1 ELSE 0),
             tier |-> tier,
             steady |-> old.steady /\ old.tier = tier]) @@ obs

\* _handle_signals and _handle_wallet_score share their auth and rate-limit code
DataRequest(endpoint, header) ==
    LET auth == _authenticate(header) IN
    IF auth = <<>>
    THEN /\ resp' = [status |-> 401, header |-> header, body |-> "error",
                     signals |-> <<>>, remaining |-> -1, limit |-> -1]
         /\ UNCHANGED <<counters, obs>>
    ELSE LET key_hash == hash_key(auth[1])
             rl == check_limit(key_hash, auth[2])
         IN  /\ RequestsToday(key_hash) < MaxRequests
             /\ counters' = rl.counters
             /\ obs' = ObsNext(key_hash, auth[2], rl)
             /\ resp' = IF ~rl.allowed
                        THEN [status |-> 429, header |-> header, body |-> "error",
                              signals |-> <<>>, remaining |-> 0, limit |-> rl.limit]
                        ELSE [status |-> 200, header |-> header,
                              body |-> IF endpoint = "signals" THEN SignalsBody.body
                                       ELSE endpoint,
                              signals |-> IF endpoint = "signals" THEN SignalsBody.signals
                                          ELSE <<>>,
                              remaining |-> rl.remaining, limit |-> rl.limit]

HandleData ==
    /\ \E endpoint \in Endpoints, header \in Headers :
          DataRequest(endpoint, header)
    /\ UNCHANGED <<now, tz, keyVars, billVars, scanVars, restVars>>

-----------------------------------------------------------------------------
(* Operations on the key store and the clock *)

CreateKey ==
    /\ \E api_key \in KeyTokens, tier \in Tiers, expires_at \in ExpiryChoices :
          /\ RowsOf(hash_key(api_key)) = {}      \* key_hash is UNIQUE
          /\ api_keys' = create_key(api_key, tier, expires_at)
    /\ UNCHANGED <<now, tz, resp, rateVars, billVars, scanVars, restVars>>

DeactivateKey ==
    /\ \E api_key \in KeyTokens :
          /\ RowsOf(hash_key(api_key)) # {}
          /\ api_keys' = deactivate_key(api_key)
          /\ api_keys' # api_keys
    /\ UNCHANGED <<now, tz, resp, rateVars, billVars, scanVars, restVars>>

UpdateTier ==
    /\ \E api_key \in KeyTokens, tier \in Tiers :
          /\ api_keys' = update_tier(api_key, tier)
          /\ api_keys' # api_keys
    /\ UNCHANGED <<now, tz, resp, rateVars, billVars, scanVars, restVars>>

Tick ==
    /\ now < MaxNow
    /\ now' = now + 1
    /\ UNCHANGED <<tz, resp, keyVars, rateVars, billVars, scanVars, restVars>>

-----------------------------------------------------------------------------
(* The API service: key store, rate limiter and data endpoints *)

-----------------------------------------------------------------------------
(* Alert engine state (wallet_monitor.py) *)

Wallets == {"W1", "W2"}
Sigs == <<"s1", "s2">>                \* signatures in the order they land on chain
SigPool == Sigs \o <<"s3", "s4", "s5">>   \* with the signatures of the hand-made listings
SigSlot == <<1, 2, 2, 2, 3>>          \* the slot of each of them

MaxClock == 6       \* the alert engine's clock stops here
MaxStarts == 2      \* main_async is started at most this many times

(* Configuration (config.py) and literals, scaled *)

ALERT_COOLDOWN_SEC == 2
StartClock == ALERT_COOLDOWN_SEC      \* the clock at the first start: the default 0.0
                                      \* of a missing last alert is a cooldown away
STATE_TTL_SECONDS == 3
MAX_SEEN_SIGNATURES == 3
PROFIT_ALERT_THRESHOLD == 2
ALERT_BATCH_SIZE == 2
TX_LOOKBACK == 2
FIRST_SCAN_TAKE == 2                  \* signatures[:5]
ALERTS_QUEUE_MAX == 2                 \* len(alerts_queue) > 1000
SAVE_EVERY == 2                       \* save_counter >= 10
DEBUG_FORCE_ALERT_PROFIT == 1         \* default "0.7", below the threshold's default

Profits == {1, 2}
Confidences == {"low", "med", "high"}
NoSignature == "None"
DebugSignature == "debug-" \o ToString(now)

Range(s) == {s[i] : i \in DOMAIN s}

Take(s, n) == SubSeq(s, 1, IF Len(s) < n THEN Len(s) ELSE n)

LastN(s, n) == SubSeq(s, IF Len(s) > n THEN Len(s) - n + 1 ELSE 1, Len(s))

SlotOf(sig) == SigSlot[CHOOSE i \in DOMAIN SigPool : SigPool[i] = sig]

\* dict.get(key, default)
Get(d, key, default) == IF key \in DOMAIN d THEN d[key] ELSE default

\* d[key] = value
Put(d, key, value) == (key :> value) @@ d

SeenKeys(seen) == {seen[i][1] : i \in DOMAIN seen}

\* the entry put in front of the others
SeenSetFirst(seen, signature, timestamp) ==
    LET IsOther(e) == e[1] # signature
    IN  <<<<signature, timestamp>>>> \o SelectSeq(seen, IsOther)

\* _seen_signatures[signature] = timestamp; move_to_end(signature)
SeenSet(seen, signature, timestamp) ==
    LET IsOther(e) == e[1] # signature
    IN  Append(SelectSeq(seen, IsOther), <<signature, timestamp>>)

\* the eviction loop never entered
EvictNothing(seen) == seen

\* while len(_seen_signatures) > MAX_SEEN_SIGNATURES: popitem(last=False)
EvictToCapacity(seen) == LastN(seen, MAX_SEEN_SIGNATURES)

\* at most one expired entry dropped
DropExpiredFirst(seen, cutoff) ==
    IF seen # <<>> /\ Head(seen)[2] < cutoff THEN Tail(seen) ELSE seen

\* the entries left after dropping the leading run of entries older than cutoff
RECURSIVE DropExpiredHead(_, _)
DropExpiredHead(seen, cutoff) ==
    IF seen # <<>> /\ Head(seen)[2] < cutoff
    THEN DropExpiredHead(Tail(seen), cutoff)
    ELSE seen

garbage_collect_state(current_ts) ==
    LET cutoff == current_ts - STATE_TTL_SECONDS
        kept == {w \in DOMAIN _last_alert_at : ~(_last_alert_at[w] < cutoff)}
    IN  [seen |-> EvictToCapacity(DropExpiredHead(_seen_signatures, cutoff)),
         last_alert_at |-> [w \in kept |-> _last_alert_at[w]]]

EmptyDb == [last_signatures |-> <<>>, seen_signatures |-> <<>>, last_alerts |-> <<>>]

save_state ==
    LET cutoff == now - STATE_TTL_SECONDS
        Recent(e) == e[2] >= cutoff
    IN  [last_signatures |-> _last_sig_by_wallet,
         seen_signatures |-> LastN(SelectSeq(_seen_signatures, Recent), MAX_SEEN_SIGNATURES),
         last_alerts |-> _last_alert_at]

\* load_state without the TTL filters
load_state_unfiltered ==
    [last_sig_by_wallet |-> state_db.last_signatures,
     seen |-> LastN(state_db.seen_signatures, MAX_SEEN_SIGNATURES),
     last_alert_at |-> state_db.last_alerts]

\* rows of equal timestamp are taken in rowid order
load_state ==
    LET cutoff == now - STATE_TTL_SECONDS
        Recent(e) == ~(e[2] < cutoff)
        kept == {w \in DOMAIN state_db.last_alerts : state_db.last_alerts[w] >= cutoff}
    IN  [last_sig_by_wallet |-> state_db.last_signatures,
         seen |-> LastN(SelectSeq(state_db.seen_signatures, Recent), MAX_SEEN_SIGNATURES),
         last_alert_at |-> [w \in kept |-> state_db.last_alerts[w]]]

\* the prefix of signatures before the first occurrence of last
RECURSIVE Before(_, _)
Before(signatures, last) ==
    IF signatures = <<>> \/ Head(signatures) = last
    THEN <<>>
    ELSE <<Head(signatures)>> \o Before(Tail(signatures), last)

\* filter_new_signatures that skips the last-seen signature and goes on
filter_new_signatures_no_break(wallet, signatures) ==
    LET subset == IF signatures = <<>> THEN <<>>
                  ELSE IF wallet \notin DOMAIN _last_sig_by_wallet
                       THEN Take(signatures, FIRST_SCAN_TAKE)
                       ELSE LET last == _last_sig_by_wallet[wallet]
                            IN  SelectSeq(signatures, LAMBDA sig : sig # last)
    IN  [subset |-> subset,
         last_sig_by_wallet |-> IF signatures = <<>> THEN _last_sig_by_wallet
                                ELSE Put(_last_sig_by_wallet, wallet, Head(signatures))]

\* filter_new_signatures without the [:5] of a first scan
filter_new_signatures_uncapped(wallet, signatures) ==
    LET subset == IF signatures = <<>> THEN <<>>
                  ELSE IF wallet \notin DOMAIN _last_sig_by_wallet
                       THEN signatures
                       ELSE Before(signatures, _last_sig_by_wallet[wallet])
    IN  [subset |-> subset,
         last_sig_by_wallet |-> IF signatures = <<>> THEN _last_sig_by_wallet
                                ELSE Put(_last_sig_by_wallet, wallet, Head(signatures))]

filter_new_signatures(wallet, signatures) ==
    LET subset == IF signatures = <<>> THEN <<>>
                  ELSE IF wallet \notin DOMAIN _last_sig_by_wallet
                       THEN Take(signatures, FIRST_SCAN_TAKE)
                       ELSE Before(signatures, _last_sig_by_wallet[wallet])
    IN  [subset |-> subset,
         last_sig_by_wallet |-> IF signatures = <<>> THEN _last_sig_by_wallet
                                ELSE Put(_last_sig_by_wallet, wallet, Head(signatures))]

\* should_alert without the seen-signature test
should_alert_cooldown_only(wallet, new_sigs) ==
    /\ new_sigs # <<>>
    /\ ~(now - Get(_last_alert_at, wallet, 0) < ALERT_COOLDOWN_SEC)

\* should_alert without the cooldown test
should_alert_seen_only(wallet, new_sigs) ==
    /\ new_sigs # <<>>
    /\ ~(\E i \in DOMAIN new_sigs : new_sigs[i] \in SeenKeys(_seen_signatures))

should_alert(wallet, new_sigs) ==
    /\ new_sigs # <<>>
    /\ ~(\E i \in DOMAIN new_sigs : new_sigs[i] \in SeenKeys(_seen_signatures))
    /\ ~(now - Get(_last_alert_at, wallet, 0) < ALERT_COOLDOWN_SEC)

RECURSIVE SeenSetAll(_, _, _)
SeenSetAll(seen, sigs, timestamp) ==
    IF sigs = <<>> THEN seen
    ELSE SeenSetAll(SeenSet(seen, Head(sigs), timestamp), Tail(sigs), timestamp)

mark_alert(wallet, sigs) ==
    [last_alert_at |-> Put(_last_alert_at, wallet, now),
     seen |-> EvictToCapacity(SeenSetAll(_seen_signatures, sigs, now))]

\* items[idx : idx + ALERT_BATCH_SIZE] for idx in range(0, len(items), ALERT_BATCH_SIZE)
RECURSIVE Chunks(_)
Chunks(items) ==
    IF items = <<>> THEN <<>>
    ELSE <<Take(items, ALERT_BATCH_SIZE)>>
         \o Chunks(SubSeq(items, ALERT_BATCH_SIZE + 1, Len(items)))

\* the groups of the slots in slots, highest slot first
RECURSIVE BatchesOfSlots(_, _)
BatchesOfSlots(signatures, slots) ==
    IF slots = {} THEN <<>>
    ELSE LET top == CHOOSE s \in slots : \A t \in slots : t <= s
             InTop(sig) == SlotOf(sig) = top
         IN  Chunks(SelectSeq(signatures, InTop)) \o BatchesOfSlots(signatures, slots \ {top})

\* build_signature_batches without the grouping by slot
build_signature_batches_ungrouped(signatures) ==
    Chunks(signatures)

build_signature_batches(signatures) ==
    BatchesOfSlots(signatures, {SlotOf(signatures[i]) : i \in DOMAIN signatures})

ChainIdle ==
    /\ chain = [w \in Wallets |-> <<>>]
    /\ df = Wallets

StateIdle ==
    /\ _last_sig_by_wallet = <<>>
    /\ _seen_signatures = <<>>
    /\ _last_alert_at = <<>>
    /\ state_db = EmptyDb

AlertsIdle ==
    /\ alerts = <<>>
    /\ alerts_queue = <<>>
    /\ emit = <<>>
    /\ primaries = <<>>

TaskIdle ==
    /\ loop = "stopped"
    /\ starts = 0
    /\ save_counter = 0
    /\ pc = [w \in Wallets |-> "idle"]
    /\ batches = [w \in Wallets |-> <<>>]

ScanIdle ==
    /\ ChainIdle
    /\ watchlist = <<>>
    /\ StateIdle
    /\ AlertsIdle
    /\ TaskIdle

-----------------------------------------------------------------------------
(* RPC endpoints and their circuit breakers (wallet_monitor.py, AsyncRpcManager) *)

Callers == {"T1", "T2"}
EndpointNames == <<"E1", "E2">>

(* Configuration (config.py), scaled *)

RPC_MAX_RETRIES == 2
RPC_CIRCUIT_BREAKER_FAILURES == 2
RPC_CIRCUIT_BREAKER_PAUSE_SEC == 2
RPC_TIMEOUT_SEC == 1

\* the defaultdict's value for an endpoint not yet used
NewCircuit == [failures |-> 0, opened_at |-> 0, state |-> "closed"]

IdleCall == [pc |-> "idle", attempt |-> 0, endpoint |-> "", start_time |-> 0, wake |-> 0]

_current_endpoint == endpoints[index]

\* the index after _rotate
_rotate == IF Len(endpoints) <= 1 THEN index ELSE (index % Len(endpoints)) + 1

\* _allow_request answering True for every circuit that is not closed
_allow_request_eager(endpoint) ==
    LET state == circuit_state[endpoint]
    IN  IF state.state = "open"
        THEN [allowed |-> TRUE,
              circuit_state |-> [circuit_state EXCEPT ![endpoint].state = "half-open"]]
        ELSE [allowed |-> TRUE, circuit_state |-> circuit_state]

_allow_request(endpoint) ==
    LET state == circuit_state[endpoint]
    IN  IF state.state = "open"
        THEN IF now - state.opened_at >= RPC_CIRCUIT_BREAKER_PAUSE_SEC
             THEN [allowed |-> TRUE,
                   circuit_state |-> [circuit_state EXCEPT ![endpoint].state = "half-open"]]
             ELSE [allowed |-> FALSE, circuit_state |-> circuit_state]
        ELSE [allowed |-> TRUE, circuit_state |-> circuit_state]

_record_failure(endpoint) ==
    LET failures == circuit_state[endpoint].failures + 1
    IN  IF failures >= RPC_CIRCUIT_BREAKER_FAILURES
        THEN [circuit_state |-> [circuit_state EXCEPT
                                   ![endpoint] = [failures |-> failures, opened_at |-> now,
                                                  state |-> "open"]],
              index |-> _rotate]
        ELSE [circuit_state |-> [circuit_state EXCEPT ![endpoint].failures = failures],
              index |-> index]

_record_success(endpoint) == [circuit_state EXCEPT ![endpoint] = NewCircuit]

RpcIdle ==
    /\ endpoints = EndpointNames
    /\ index = 1
    /\ circuit_state = [e \in Range(EndpointNames) |-> NewCircuit]
    /\ calls = [t \in Callers |-> IdleCall]
    /\ breaker = <<>>

LruIdle ==
    /\ _watchlist_usage = <<>>
    /\ scheduled = <<>>
    /\ evicted = {}
    /\ promoted = {}

NotCollected == [at |-> 0 - 1, seen |-> <<>>, last_alert_at |-> <<>>]

GcIdle == collected = NotCollected

NoSnapshot ==
    [at |-> 0 - 1, reloaded |-> 0 - 1, seen |-> <<>>, last_alert_at |-> <<>>,
     last_sig_by_wallet |-> <<>>]

StoreIdle == snapshot = NoSnapshot

\* the defaults of config.py, no webhook configured
DispatchIdle ==
    /\ CONFIG = [dry_run |-> TRUE, copy_trader_enabled |-> FALSE, discord_webhook |-> FALSE]
    /\ _sent_alerts = <<>>
    /\ _last_failure = <<>>
    /\ outbound = <<>>

NotEstimated == [txs |-> <<>>, results |-> <<>>]

EstIdle ==
    /\ price_cache = <<>>
    /\ estimate = NotEstimated

NotAsked == [listener |-> "", status |-> 0, at |-> 0, loop_ts |-> 0]

HealthIdle ==
    /\ LAST_LOOP_TS = 0
    /\ health = NotAsked

MAX_CONCURRENCY == 2

LoopIdle ==
    /\ sem = MAX_CONCURRENCY
    /\ tasks = <<>>
    /\ cycle = "top"
    /\ stopped_by = ""
    /\ _sent_cache = {}
    /\ notified = <<>>
    /\ exit_saves = 0

NoFanout == [wallet |-> "", signature |-> "", profit |-> 0, invoked |-> FALSE, task |-> ""]

FanIdle == fanout = NoFanout

NotFiltered == [wallet |-> "", signatures |-> <<>>, before |-> <<>>, subset |-> <<>>]

NotBuilt == [signatures |-> <<>>, batches |-> <<>>]

SigIdle == filter_call = NotFiltered /\ batch_call = NotBuilt

NoVerdict ==
    [wallet |-> "", new_sigs |-> <<>>, baseline |-> FALSE, profit |-> 0, pnl_confidence |-> "",
     seen |-> <<>>, last_alert_at |-> <<>>, at |-> 0, alerts |-> 0, blocked |-> 0]

GauntletIdle == _blocked_alerts = <<>> /\ verdict = NoVerdict

PickIdle == picked = [w \in Wallets |-> <<>>]

LateIdle == EstIdle /\ HealthIdle /\ LoopIdle /\ FanIdle /\ SigIdle /\ GauntletIdle /\ PickIdle

MoreIdle == LruIdle /\ GcIdle /\ StoreIdle /\ DispatchIdle /\ LateIdle

RestIdle == RpcIdle /\ MoreIdle

InitBilling ==
    /\ subsTable = "api_auth"
    /\ subscriptions = <<>>
    /\ billing = <<>>

\* no API key, no request, no subscription
ServiceIdle ==
    /\ tz = 0
    /\ api_keys = {}
    /\ counters = <<>>
    /\ resp = NoResp
    /\ obs = <<>>
    /\ InitBilling

InitApi ==
    /\ now = 0
    /\ tz \in (0 - MaxTz)..MaxTz
    /\ api_keys = {}
    /\ counters = <<>>
    /\ resp = NoResp
    /\ obs = <<>>
    /\ InitBilling
    /\ ScanIdle
    /\ RestIdle

NextApi == CreateKey \/ DeactivateKey \/ UpdateTier \/ HandleData \/ Tick

SpecApi == InitApi /\ [][NextApi]_vars

\* the key whose request the last response answers
RespHash == hash_key(resp.header)

\* validity of a token as the specification states it: the hash exists, the row
\* is active and it has no expiry or expiry > now
SpecValid(api_key) ==
    \E r \in RowsOf(hash_key(api_key)) :
        /\ r.is_active = 1
        /\ (r.expires_at = NoExpiry \/ r.expires_at > now)

SpecTier(api_key) == (CHOOSE r \in RowsOf(hash_key(api_key)) : TRUE).tier

\* a request was handled in this step
Requested == resp' # resp \/ obs' # obs

\* C4: whenever check_limit answers allowed=True for a key, the number of calls
\* of that key admitted so far in the current UTC day, this one included, is at
\* most the limit of the tier passed to the call.
C4_AdmittedWithinLimit ==
    \A h \in DOMAIN obs :
        (resp.status = 200 /\ resp.header # NoHeader /\ RespHash = h)
            => obs[h].admitted <= limits(obs[h].tier)

\* a key has used up its whole daily quota and its next request was refused
C4_Witness ==
    /\ resp.status = 429
    /\ RespHash \in DOMAIN obs
    /\ obs[RespHash].admitted = limits(obs[RespHash].tier)
    /\ obs[RespHash].steady

\* C5: the k-th admitted call of a key in a UTC day (tier unchanged) returns
\* remaining = limit - k, the counter after the decrement, and the admitted
\* response carries that value in X-RateLimit-Remaining.
C5_RemainingPostDecrement ==
    (resp.status = 200 /\ RespHash \in DOMAIN obs /\ obs[RespHash].steady)
        => resp.remaining = resp.limit - obs[RespHash].admitted

\* C6: with tier limit L (tier unchanged during the day), the first L
\* authenticated requests of a key within a UTC day are answered 200 and every
\* further one 429 with X-RateLimit-Remaining 0 and X-RateLimit-Limit L; a
\* rejected request leaves the counter unchanged; the first requests of the
\* next UTC day are admitted again.
C6_FirstLAdmittedThen429 ==
    [][\A h \in DOMAIN obs' :
          (Requested /\ resp'.header # NoHeader /\ hash_key(resp'.header) = h
             /\ resp'.status # 401 /\ obs'[h].steady)
          => LET L == limits(obs'[h].tier) IN
             IF obs'[h].requests <= L
             THEN resp'.status = 200
             ELSE /\ resp'.status = 429
                  /\ resp'.remaining = 0
                  /\ resp'.limit = L
                  /\ h \in DOMAIN counters
                  /\ counters'[h] = counters[h]]_vars

\* C7: a data request whose x-api-key is missing, unknown, deactivated or
\* expired (expiry <= now) is answered 401 with an error body and changes no
\* rate-limit counter.
C7_InvalidKeyIs401 ==
    [][(Requested /\ ~SpecValid(resp'.header))
          => /\ resp'.status = 401
             /\ resp'.body = "error"
             /\ counters' = counters]_vars

\* C8: validate_key(token) returns (tier, True) exactly when a row with the
\* token's hash exists, is active and has no expiry or expiry > now, and None
\* in every other case.
C8_ValidateIffSpecValid ==
    \A api_key \in Headers \ {NoHeader} :
        validate_key(api_key) =
            IF SpecValid(api_key) THEN <<SpecTier(api_key), TRUE>> ELSE <<>>

-----------------------------------------------------------------------------
(* BillingService: the billing webhooks and fake checkout *)

SubIds == {"sub_1", "sub_2"}                \* external subscription ids
SubKeyTokens == {"daas_1", "daas_2"}        \* what generate_key can return
PriceIds == {"", "price_free", "price_pro", "price_elite"}
Statuses == {"active", "past_due"}          \* data.get("status", "active")

_extract_tier_from_subscription(price_id, meta_tier) ==
    CASE price_id = "price_free" -> "free"
      [] price_id = "price_pro" -> "pro"
      [] price_id = "price_elite" -> "elite"
      [] OTHER -> meta_tier

\* Table subscriptions is created by ApiAuth._init_db (columns id, api_key_id,
\* tier, status, created_at) whenever an ApiAuth is constructed on the file;
\* BillingService._init_db, which no code calls, would create it with the
\* columns stripe_customer_id, stripe_subscription_id and updated_at that the
\* statements of BillingService name.
HasStripeColumns == subsTable = "billing"

\* SELECT api_key_id FROM subscriptions WHERE stripe_subscription_id = ?; fetchone()
SubRowIndexes(subscription_id) ==
    {i \in DOMAIN subscriptions : subscriptions[i].stripe_subscription_id = subscription_id}

FirstSubRow(subscription_id) ==
    subscriptions[CHOOSE i \in SubRowIndexes(subscription_id) :
                      \A j \in SubRowIndexes(subscription_id) : i <= j]

WebhookResp(status) ==
    [status |-> status, header |-> NoHeader,
     body |-> IF status = 200 THEN "ok" ELSE "error", signals |-> <<>>,
     remaining |-> -1, limit |-> -1]

Billed(subscription_id) ==
    IF subscription_id \in DOMAIN billing THEN billing[subscription_id]
    ELSE [keys |-> {}, last |-> "", tier |-> ""]

\* the keys issued to subscription_id, the last event handled for it, its tier
Note(subscription_id, keys, last, tier) ==
    (subscription_id :> [keys |-> keys, last |-> last, tier |-> tier]) @@ billing

_handle_subscription_created(subscription_id, tier, api_key) ==
    /\ api_keys' = create_key(api_key, tier, NoExpiry)
    /\ IF HasStripeColumns
       THEN /\ subscriptions' = Append(subscriptions,
                    [api_key_id |-> hash_key(api_key),
                     stripe_subscription_id |-> subscription_id,
                     tier |-> tier, status |-> "active"])
            /\ billing' = Note(subscription_id,
                               Billed(subscription_id).keys \cup {api_key}, "created", tier)
            /\ resp' = WebhookResp(200)
       ELSE \* sqlite3.OperationalError: no column named stripe_customer_id
            /\ UNCHANGED <<subscriptions, billing>>
            /\ resp' = WebhookResp(500)

_handle_subscription_updated(subscription_id, tier, status) ==
    IF ~HasStripeColumns
    THEN /\ resp' = WebhookResp(500)   \* no such column: stripe_subscription_id
         /\ UNCHANGED <<api_keys, subscriptions, billing>>
    ELSE IF SubRowIndexes(subscription_id) = {}
    THEN /\ resp' = WebhookResp(200)
         /\ UNCHANGED <<api_keys, subscriptions, billing>>
    ELSE LET api_key_id == FirstSubRow(subscription_id).api_key_id IN
            /\ api_keys' = update_tier(api_key_id, tier)
            /\ billing' = Note(subscription_id, Billed(subscription_id).keys,
                               "updated", tier)
            /\ subscriptions' =
                 [i \in DOMAIN subscriptions |->
                    IF subscriptions[i].stripe_subscription_id = subscription_id
                    THEN [subscriptions[i] EXCEPT !.tier = tier, !.status = status]
                    ELSE subscriptions[i]]
            /\ resp' = WebhookResp(200)

_handle_subscription_deleted(subscription_id) ==
    IF ~HasStripeColumns
    THEN /\ resp' = WebhookResp(500)   \* no such column: stripe_subscription_id
         /\ UNCHANGED <<api_keys, subscriptions, billing>>
    ELSE IF SubRowIndexes(subscription_id) = {}
    THEN /\ resp' = WebhookResp(200)
         /\ UNCHANGED <<api_keys, subscriptions, billing>>
    ELSE LET api_key_id == FirstSubRow(subscription_id).api_key_id IN
            /\ api_keys' = deactivate_key(api_key_id)
            /\ billing' = Note(subscription_id, Billed(subscription_id).keys,
                               "deleted", Billed(subscription_id).tier)
            /\ subscriptions' =
                 [i \in DOMAIN subscriptions |->
                    IF subscriptions[i].stripe_subscription_id = subscription_id
                    THEN [subscriptions[i] EXCEPT !.status = "cancelled"]
                    ELSE subscriptions[i]]
            /\ resp' = WebhookResp(200)

FreshToken(api_key) == api_key \in SubKeyTokens /\ RowsOf(hash_key(api_key)) = {}

SubscriptionCreated ==
    /\ \E subscription_id \in SubIds, price_id \in PriceIds, meta_tier \in Tiers,
          api_key \in SubKeyTokens :
          /\ FreshToken(api_key)
          /\ _handle_subscription_created(
                subscription_id, _extract_tier_from_subscription(price_id, meta_tier),
                api_key)
    /\ UNCHANGED <<now, tz, rateVars, subsTable, scanVars, restVars>>

SubscriptionUpdated ==
    /\ \E subscription_id \in SubIds, price_id \in PriceIds, meta_tier \in Tiers,
          status \in Statuses :
          _handle_subscription_updated(
              subscription_id, _extract_tier_from_subscription(price_id, meta_tier),
              status)
    /\ UNCHANGED <<now, tz, rateVars, subsTable, scanVars, restVars>>

SubscriptionDeleted ==
    /\ \E subscription_id \in SubIds : _handle_subscription_deleted(subscription_id)
    /\ UNCHANGED <<now, tz, rateVars, subsTable, scanVars, restVars>>

\* fake_checkout(tier, email): a key and a subscription "fake_sub_<int(time.time())>"
FakeCheckout ==
    /\ \E tier \in Tiers, api_key \in SubKeyTokens :
          /\ FreshToken(api_key)
          /\ api_keys' = create_key(api_key, tier, NoExpiry)
          /\ IF HasStripeColumns
             THEN /\ subscriptions' = Append(subscriptions,
                          [api_key_id |-> hash_key(api_key),
                           stripe_subscription_id |-> "fake_sub_" \o ToString(now),
                           tier |-> tier, status |-> "active"])
                  /\ resp' = [WebhookResp(200) EXCEPT !.body = api_key]
             ELSE /\ subscriptions' = subscriptions
                  /\ resp' = WebhookResp(500)
    /\ UNCHANGED <<now, tz, rateVars, subsTable, billing, scanVars, restVars>>

InitBillingSvc ==
    /\ now = 0
    /\ tz = 0
    /\ api_keys = {}
    /\ counters = <<>>
    /\ resp = NoResp
    /\ obs = <<>>
    /\ subsTable \in {"api_auth", "billing"}
    /\ subscriptions = <<>>
    /\ billing = <<>>
    /\ ScanIdle
    /\ RestIdle

NextBilling ==
    SubscriptionCreated \/ SubscriptionUpdated \/ SubscriptionDeleted \/ FakeCheckout
        \/ Tick

SpecBilling == InitBillingSvc /\ [][NextBilling]_vars

-----------------------------------------------------------------------------
(* Alert engine: main_async and scan_wallet_async (wallet_monitor.py) *)

SigSet == Range(Sigs)
daas_mode == TRUE

Landed == UNION {Range(chain[w]) : w \in Wallets}

\* alert_event of scan_wallet_async
ScanAlert(wallet, profit, pnl_confidence, primary_sig) ==
    [wallet |-> wallet, profit |-> profit, signal_type |-> "Signal",
     signature |-> primary_sig, pnl_confidence |-> pnl_confidence]

\* alert_event of the DEBUG_FORCE_ALERT block: no pnl_confidence key, signature None
DebugAlert(forced_wallet) ==
    [wallet |-> forced_wallet, profit |-> DEBUG_FORCE_ALERT_PROFIT, signal_type |-> "Debug",
     signature |-> NoSignature, pnl_confidence |-> "absent"]

\* alerts_queue.append(alert_event); if len(alerts_queue) > 1000: alerts_queue.pop(0)
QueuePush(queue, alert_event) ==
    IF ~daas_mode THEN queue
    ELSE LET q == Append(queue, alert_event)
         IN  IF Len(q) > ALERTS_QUEUE_MAX THEN Tail(q) ELSE q

NoPrev == 0 - 1

Emitted(wallet, by) ==
    LET had == wallet \in DOMAIN emit
    IN  Put(emit, wallet,
            [at |-> now, by |-> by, run |-> starts,
             since |-> IF had THEN now - emit[wallet].at ELSE NoPrev,
             across |-> had /\ emit[wallet].run # starts])

CountPrimary(primary_sig) ==
    [primaries EXCEPT ![primary_sig] = IF @ < 2 THEN @ + 1 ELSE @]

\* a transaction involving the watched wallets ws lands on chain
NewTx(ws) ==
    /\ ws # {}
    /\ Cardinality(Landed) < Len(Sigs)
    /\ LET sig == Sigs[Cardinality(Landed) + 1]
       IN  chain' = [w \in Wallets |-> IF w \in ws THEN <<sig>> \o chain[w] ELSE chain[w]]
    /\ UNCHANGED <<now, tz, resp, keyVars, rateVars, billVars, restVars, df, watchlist,
                   stateVars, taskVars,
                   alertVars>>

TickScan ==
    /\ now < MaxClock
    /\ now' = now + 1
    /\ UNCHANGED <<tz, resp, keyVars, rateVars, billVars, scanVars, restVars>>

\* main_async: init_state_db, load_state, empty alert list and ring
Start ==
    /\ loop = "stopped"
    /\ starts < MaxStarts
    /\ starts' = starts + 1
    /\ LET loaded == load_state
       IN  /\ _last_sig_by_wallet' = loaded.last_sig_by_wallet
           /\ _seen_signatures' = loaded.seen
           /\ _last_alert_at' = loaded.last_alert_at
    /\ alerts' = <<>>
    /\ alerts_queue' = <<>>
    /\ save_counter' = 0
    /\ loop' = "boot"
    /\ UNCHANGED <<now, tz, resp, keyVars, rateVars, billVars, restVars, chain, df,
                   watchlist, state_db, pc,
                   batches, emit, primaries>>

\* main_async: the DEBUG_FORCE_ALERT block, then the first loop iteration is due.
\* The block calls send_alert(..., tier="free"); send_alert takes no tier, so the
\* call raises TypeError out of main_async once the alert is appended and marked.
Boot(debug_flag, forced_wallet) ==
    /\ loop = "boot"
    /\ IF debug_flag
       THEN LET marked == mark_alert(forced_wallet, <<DebugSignature>>)
            IN  /\ alerts' = Append(alerts, DebugAlert(forced_wallet))
                /\ _last_alert_at' = marked.last_alert_at
                /\ _seen_signatures' = marked.seen
                /\ loop' = "fatal"
       ELSE /\ loop' = "top"
            /\ UNCHANGED <<alerts, _last_alert_at, _seen_signatures>>
    /\ UNCHANGED <<now, tz, resp, keyVars, rateVars, billVars, restVars, chain, df,
                   watchlist,
                   _last_sig_by_wallet, state_db, starts, save_counter, pc, batches,
                   alerts_queue, emit, primaries>>

\* top of the while loop: garbage_collect_state, one scan task per wallet
LoopTop ==
    /\ loop = "top"
    /\ LET gc == garbage_collect_state(now)
       IN  /\ _seen_signatures' = gc.seen
           /\ _last_alert_at' = gc.last_alert_at
    /\ pc' = [w \in Wallets |-> IF w \in Range(watchlist) THEN "fetch" ELSE "idle"]
    /\ loop' = "gather"
    /\ UNCHANGED <<now, tz, resp, keyVars, rateVars, billVars, restVars, chain, df,
                   watchlist,
                   _last_sig_by_wallet, state_db, starts, save_counter, batches, alertVars>>

\* scan_wallet_async up to the batch loop: fetch, filter_new_signatures, batches
ScanSigs(wallet, rpc_ok) ==
    /\ loop = "gather"
    /\ pc[wallet] = "fetch"
    /\ IF ~rpc_ok
       THEN /\ pc' = [pc EXCEPT ![wallet] = "idle"]
            /\ UNCHANGED <<_last_sig_by_wallet, batches, picked>>
       ELSE LET raw_sigs == Take(chain[wallet], TX_LOOKBACK)
                filtered == filter_new_signatures(wallet, raw_sigs)
                increment == filtered.subset
            IN  /\ _last_sig_by_wallet' = filtered.last_sig_by_wallet
                /\ IF increment = <<>>
                   THEN /\ pc' = [pc EXCEPT ![wallet] = "idle"]
                        /\ UNCHANGED batches
                   ELSE /\ pc' = [pc EXCEPT ![wallet] = "batch"]
                        /\ batches' = [batches EXCEPT
                                         ![wallet] = build_signature_batches(increment)]
                /\ picked' = IF increment = <<>> THEN picked
                             ELSE [picked EXCEPT ![wallet] = Append(@, increment)]
    /\ UNCHANGED <<now, tz, resp, keyVars, rateVars, billVars, rpcVars, lruVars, gcVars,
                   storeVars, dispatchVars, estVars, healthVars, loopVars, fanVars,
                   sigVars, gauntletVars, chain, df,
                   watchlist, _seen_signatures,
                   _last_alert_at, state_db, loop, starts, save_counter, alertVars>>

\* the filters of scan_wallet_async before should_alert, without the profit filter
passes_filters_no_profit(wallet, profit, pnl_confidence) ==
    /\ wallet \in df
    /\ pnl_confidence \in {"med", "high"}

\* the filters of scan_wallet_async before should_alert
passes_filters(wallet, profit, pnl_confidence) ==
    /\ wallet \in df
    /\ ~(profit < PROFIT_ALERT_THRESHOLD)
    /\ pnl_confidence \in {"med", "high"}

\* one iteration of the batch loop of scan_wallet_async
ScanBatch(wallet, estimate_ok, profit, pnl_confidence) ==
    /\ loop = "gather"
    /\ pc[wallet] = "batch"
    /\ LET new_sigs == Head(batches[wallet])
           rest == Tail(batches[wallet])
       IN  /\ batches' = [batches EXCEPT ![wallet] = rest]
           /\ pc' = [pc EXCEPT ![wallet] = IF rest = <<>> THEN "idle" ELSE "batch"]
           /\ IF estimate_ok /\ passes_filters(wallet, profit, pnl_confidence)
                 /\ should_alert(wallet, new_sigs)
              THEN LET primary_sig == new_sigs[1]
                       alert_event == ScanAlert(wallet, profit, pnl_confidence, primary_sig)
                       marked == mark_alert(wallet, new_sigs)
                   IN  /\ alerts' = Append(alerts, alert_event)
                       /\ alerts_queue' = QueuePush(alerts_queue, alert_event)
                       /\ _last_alert_at' = marked.last_alert_at
                       /\ _seen_signatures' = marked.seen
                       /\ emit' = Emitted(wallet, "scan")
                       /\ primaries' = CountPrimary(primary_sig)
              ELSE UNCHANGED <<alertVars, _last_alert_at, _seen_signatures>>
    /\ UNCHANGED <<now, tz, resp, keyVars, rateVars, billVars, restVars, chain, df,
                   watchlist,
                   _last_sig_by_wallet, state_db, loop, starts, save_counter>>

\* after gather: save_state every SAVE_EVERY iterations, then sleep
LoopEnd ==
    /\ loop = "gather"
    /\ \A w \in Wallets : pc[w] = "idle"
    /\ IF save_counter + 1 >= SAVE_EVERY
       THEN /\ state_db' = save_state
            /\ save_counter' = 0
       ELSE /\ save_counter' = save_counter + 1
            /\ UNCHANGED state_db
    /\ loop' = "top"
    /\ UNCHANGED <<now, tz, resp, keyVars, rateVars, billVars, restVars, chain, df,
                   watchlist,
                   _last_sig_by_wallet, _seen_signatures, _last_alert_at, starts, pc,
                   batches, alertVars>>

\* SIGTERM or SIGINT: save_on_exit, exit(0); the process memory is gone
Shutdown ==
    /\ loop # "stopped"
    /\ state_db' = save_state
    /\ loop' = "stopped"
    /\ _last_sig_by_wallet' = <<>>
    /\ _seen_signatures' = <<>>
    /\ _last_alert_at' = <<>>
    /\ alerts' = <<>>
    /\ alerts_queue' = <<>>
    /\ save_counter' = 0
    /\ pc' = [w \in Wallets |-> "idle"]
    /\ batches' = [w \in Wallets |-> <<>>]
    /\ UNCHANGED <<now, tz, resp, keyVars, rateVars, billVars, restVars, chain, df,
                   watchlist, starts, emit,
                   primaries>>

\* main: the exception leaves asyncio.run, "fatal error" is logged, the process ends
\* without save_state
Fatal ==
    /\ loop = "fatal"
    /\ loop' = "stopped"
    /\ _last_sig_by_wallet' = <<>>
    /\ _seen_signatures' = <<>>
    /\ _last_alert_at' = <<>>
    /\ alerts' = <<>>
    /\ alerts_queue' = <<>>
    /\ save_counter' = 0
    /\ UNCHANGED <<now, tz, resp, keyVars, rateVars, billVars, restVars, chain, df,
                   watchlist, state_db, starts, pc, batches, emit, primaries>>

InitEngine ==
    /\ now = StartClock
    /\ tz = 0
    /\ api_keys = {}
    /\ counters = <<>>
    /\ resp = NoResp
    /\ obs = <<>>
    /\ InitBilling
    /\ RestIdle
    /\ chain = [w \in Wallets |-> <<>>]
    /\ _last_sig_by_wallet = <<>>
    /\ _seen_signatures = <<>>
    /\ _last_alert_at = <<>>
    /\ state_db = EmptyDb
    /\ alerts = <<>>
    /\ alerts_queue = <<>>
    /\ loop = "stopped"
    /\ starts = 0
    /\ save_counter = 0
    /\ pc = [w \in Wallets |-> "idle"]
    /\ batches = [w \in Wallets |-> <<>>]
    /\ emit = <<>>
    /\ primaries = [s \in SigSet |-> 0]

\* one lifetime of the process, every wallet watched
InitScan == InitEngine /\ watchlist = <<"W1", "W2">> /\ df = Wallets

NextScan ==
    \/ \E ws \in SUBSET Range(watchlist) : NewTx(ws)
    \/ TickScan
    \/ Start
    \/ \E debug_flag \in BOOLEAN, forced_wallet \in Wallets : Boot(debug_flag, forced_wallet)
    \/ LoopTop
    \/ \E wallet \in Wallets, rpc_ok \in BOOLEAN : ScanSigs(wallet, rpc_ok)
    \/ \E wallet \in Wallets, estimate_ok \in BOOLEAN, profit \in Profits,
          pnl_confidence \in Confidences :
          ScanBatch(wallet, estimate_ok, profit, pnl_confidence)
    \/ LoopEnd

SpecScan == InitScan /\ [][NextScan]_vars

\* the process is stopped and started again, one wallet watched
InitLifecycle == InitEngine /\ watchlist = <<"W1">> /\ df \in SUBSET Range(watchlist)

NextLifecycle == NextScan \/ Shutdown \/ Fatal

SpecLifecycle == InitLifecycle /\ [][NextLifecycle]_vars

-----------------------------------------------------------------------------
(* Claims about the alert engine *)

\* C1: whenever scan_wallet_async emits an alert for a wallet, at least
\* ALERT_COOLDOWN_SEC have elapsed since the previous alert emitted for that
\* wallet, over scan cycles, garbage collection and a snapshot and reload.
C1_CooldownBetweenAlerts ==
    \A w \in DOMAIN emit :
        emit[w].by = "scan" /\ emit[w].since # NoPrev
            => emit[w].since >= ALERT_COOLDOWN_SEC

\* a second scan alert of a wallet, exactly one cooldown after its previous alert,
\* which was emitted before the process was stopped and started again
C1_Witness ==
    \E w \in DOMAIN emit :
        /\ emit[w].by = "scan"
        /\ emit[w].since = ALERT_COOLDOWN_SEC
        /\ emit[w].across

IsOk(a) == a.profit >= PROFIT_ALERT_THRESHOLD /\ a.pnl_confidence \in {"med", "high"}

\* scan_wallet_async appends an alert whose primary signature is s
EmitsPrimary(s) ==
    /\ Len(alerts') = Len(alerts) + 1
    /\ alerts'[Len(alerts')].signature = s

\* C2 (as stated): for every signature, at most one emitted alert has it as its
\* primary signature, across all wallets, scan cycles and interleavings.
C2_OneAlertPerPrimary == \A s \in SigSet : primaries[s] <= 1

\* C2 (amended): an alert with primary signature s is emitted only when s is not
\* in the seen set, and the emission puts s in the seen set: while s is retained
\* there, no second alert has s as its primary signature.
C2_OneAlertWhileSeen ==
    [][\A s \in SigSet :
          EmitsPrimary(s) => /\ s \notin SeenKeys(_seen_signatures)
                             /\ s \in SeenKeys(_seen_signatures')]_vars

\* a signature alerted a second time, after it had left the seen set
C2_Witness == \E s \in SigSet : primaries[s] = 2 /\ s \in SeenKeys(_seen_signatures)

\* C3 (as stated): every alert appended to the alert list or to the API ring has
\* profit >= PROFIT_ALERT_THRESHOLD and confidence med or high.
C3_AllAlertsPassFilters ==
    \A a \in Range(alerts) \cup Range(alerts_queue) : IsOk(a)

\* C3 (amended): every alert in the API ring, and every alert of the alert list
\* other than the DEBUG_FORCE_ALERT start-up alert, has profit >=
\* PROFIT_ALERT_THRESHOLD and confidence med or high.
C3_ScanAlertsPassFilters ==
    /\ \A a \in Range(alerts_queue) : IsOk(a)
    /\ \A a \in Range(alerts) : a.signal_type # "Debug" => IsOk(a)

\* scanned alerts in the alert list, the oldest of them already dropped from the ring
C3_Witness ==
    /\ Len(alerts) >= 2
    /\ \A i \in DOMAIN alerts : alerts[i].signal_type = "Signal" /\ IsOk(alerts[i])
    /\ alerts_queue # <<>>
    /\ Len(alerts_queue) < Len(alerts)

-----------------------------------------------------------------------------
(* AsyncRpcManager._call_jsonrpc, one step per suspension point *)

Opened(endpoint) == Put(breaker, endpoint, [opened_at |-> now, gap |-> NoPrev])

Posted(endpoint) ==
    IF endpoint \in DOMAIN breaker
    THEN Put(breaker, endpoint, [breaker[endpoint] EXCEPT !.gap = now - breaker[endpoint].opened_at])
    ELSE breaker

\* what a call does after an attempt that did not return: the next attempt, or None
NextAttempt(call) ==
    IF call.attempt + 1 >= RPC_MAX_RETRIES
    THEN IdleCall
    ELSE [call EXCEPT !.pc = "attempt", !.attempt = call.attempt + 1, !.endpoint = ""]

\* a caller enters _call_jsonrpc
CallStart(t) ==
    /\ calls[t].pc = "idle"
    /\ calls' = [calls EXCEPT ![t] = [IdleCall EXCEPT !.pc = "attempt", !.start_time = now]]
    /\ UNCHANGED <<now, tz, resp, keyVars, rateVars, billVars, scanVars, moreVars, endpoints, index,
                   circuit_state, breaker>>

\* top of the retry loop: _current_endpoint, _allow_request, then the POST or the pause
Attempt(t) ==
    /\ calls[t].pc = "attempt"
    /\ LET endpoint == _current_endpoint
           asked == _allow_request(endpoint)
       IN  /\ circuit_state' = asked.circuit_state
           /\ IF asked.allowed
              THEN /\ calls' = [calls EXCEPT ![t].pc = "posted", ![t].endpoint = endpoint]
                   /\ breaker' = Posted(endpoint)
              ELSE /\ calls' = [calls EXCEPT ![t].pc = "paused",
                                             ![t].wake = now + RPC_CIRCUIT_BREAKER_PAUSE_SEC]
                   /\ UNCHANGED breaker
    /\ UNCHANGED <<now, tz, resp, keyVars, rateVars, billVars, scanVars, moreVars, endpoints, index>>

\* after asyncio.sleep(RPC_CIRCUIT_BREAKER_PAUSE_SEC): _rotate, continue
Resume(t) ==
    /\ calls[t].pc = "paused"
    /\ now >= calls[t].wake
    /\ index' = _rotate
    /\ calls' = [calls EXCEPT ![t] = NextAttempt([calls[t] EXCEPT !.wake = 0])]
    /\ UNCHANGED <<now, tz, resp, keyVars, rateVars, billVars, scanVars, moreVars, endpoints,
                   circuit_state, breaker>>

\* the POST completes: 200 with a result, 200 with a JSON error, or an HTTP error,
\* a timeout or an exception
Response(t, outcome) ==
    /\ calls[t].pc = "posted"
    /\ LET endpoint == calls[t].endpoint
           failed == _record_failure(endpoint)
       IN  IF outcome = "ok"
           THEN /\ circuit_state' = _record_success(endpoint)
                /\ calls' = [calls EXCEPT ![t] = IdleCall]
                /\ UNCHANGED <<index, breaker>>
           ELSE /\ circuit_state' = failed.circuit_state
                /\ index' = failed.index
                /\ breaker' = IF failed.circuit_state[endpoint].state = "open"
                              THEN Opened(endpoint) ELSE breaker
                /\ calls' = [calls EXCEPT ![t] = IF outcome = "json_error" THEN IdleCall
                                                 ELSE [calls[t] EXCEPT !.pc = "backoff"]]
    /\ UNCHANGED <<now, tz, resp, keyVars, rateVars, billVars, scanVars, moreVars, endpoints>>

\* after asyncio.sleep(compute_retry_delay(attempt)): the timeout test, next attempt
Retry(t) ==
    /\ calls[t].pc = "backoff"
    /\ calls' = [calls EXCEPT ![t] = IF now - calls[t].start_time >= RPC_TIMEOUT_SEC
                                     THEN IdleCall ELSE NextAttempt(calls[t])]
    /\ UNCHANGED <<now, tz, resp, keyVars, rateVars, billVars, scanVars, moreVars, endpoints, index,
                   circuit_state, breaker>>

InitRpcManager ==
    /\ now = StartClock
    /\ ServiceIdle
    /\ ScanIdle
    /\ MoreIdle
    /\ endpoints \in {<<"E1">>, EndpointNames}
    /\ index = 1
    /\ circuit_state = [e \in Range(EndpointNames) |-> NewCircuit]
    /\ breaker = <<>>

Outcomes == {"ok", "json_error", "http_error"}

NextRpc ==
    \/ TickScan
    \/ \E t \in DOMAIN calls : CallStart(t)
    \/ \E t \in DOMAIN calls : Attempt(t)
    \/ \E t \in DOMAIN calls : Resume(t)
    \/ \E t \in DOMAIN calls, outcome \in Outcomes : Response(t, outcome)
    \/ \E t \in DOMAIN calls : Retry(t)

\* the scan tasks of one gather share the manager
InitRpc == InitRpcManager /\ calls = [t \in Callers |-> IdleCall]

SpecRpc == InitRpc /\ [][NextRpc]_vars

\* one caller at a time, calls keep being issued and answered, time passes
InitRpcSeq == InitRpcManager /\ calls = [t \in {"T1"} |-> IdleCall]

FairRpc ==
    /\ WF_vars(TickScan)
    /\ \A t \in {"T1"} :
          /\ WF_vars(CallStart(t) \/ Attempt(t) \/ Resume(t) \/ Retry(t))
          /\ WF_vars(\E outcome \in Outcomes : Response(t, outcome))

SpecRpcFair == InitRpcSeq /\ [][NextRpc]_vars /\ FairRpc

\* C11: once an endpoint has accumulated RPC_CIRCUIT_BREAKER_FAILURES consecutive
\* failures, no I/O is sent to it until RPC_CIRCUIT_BREAKER_PAUSE_SEC have elapsed
\* since it opened, under any interleaving of concurrent calls.
C11_NoIoWhilePaused ==
    \A e \in DOMAIN breaker :
        breaker[e].gap # NoPrev => breaker[e].gap >= RPC_CIRCUIT_BREAKER_PAUSE_SEC

CircuitSteps ==
    {<<"closed", "open">>, <<"open", "half-open">>, <<"half-open", "closed">>,
     <<"half-open", "open">>}

\* C12: every change of an endpoint's circuit state is closed->open, open->half-open,
\* half-open->closed or half-open->open, under any interleaving of in-flight calls.
C12_OnlyFourTransitions ==
    [][\A e \in DOMAIN circuit_state :
          circuit_state'[e].state # circuit_state[e].state
              => <<circuit_state[e].state, circuit_state'[e].state>> \in CircuitSteps]_vars

PauseElapsed(e) == now - circuit_state[e].opened_at >= RPC_CIRCUIT_BREAKER_PAUSE_SEC

\* C13 (as stated): with two endpoints and calls that keep being issued, once the
\* primary's circuit is open and T_pause has elapsed the primary eventually becomes
\* half-open (and a later success on it closes it).
C13_PrimaryBecomesHalfOpen ==
    []<>(\E t \in DOMAIN calls : calls[t].pc = "posted")
        => ((Len(endpoints) >= 2 /\ circuit_state["E1"].state = "open" /\ PauseElapsed("E1"))
               ~> (circuit_state["E1"].state # "open"))

\* C13 (amended): an open circuit becomes half-open exactly at a call attempt made
\* on it as the current endpoint once T_pause has elapsed, that attempt is sent, and
\* every successful call on an endpoint leaves it closed with failure count 0.
C13_HalfOpenOnAttemptThenReset ==
    [][/\ \A e \in Range(endpoints) :
            circuit_state[e].state = "open" /\ circuit_state'[e].state = "half-open"
                => e = _current_endpoint /\ PauseElapsed(e)
       /\ \A t \in DOMAIN calls :
            /\ Attempt(t) /\ circuit_state[_current_endpoint].state = "open"
                  /\ PauseElapsed(_current_endpoint)
                  => /\ circuit_state'[_current_endpoint].state = "half-open"
                     /\ calls'[t].pc = "posted"
            /\ Response(t, "ok")
                  => /\ circuit_state'[calls[t].endpoint].state = "closed"
                     /\ circuit_state'[calls[t].endpoint].failures = 0]_vars

\* the primary of two endpoints was opened, probed half-open and closed again by a
\* success, while the secondary is the one that is open now
C13_Witness ==
    /\ Len(endpoints) >= 2
    /\ "E1" \in DOMAIN breaker
    /\ breaker["E1"].gap # NoPrev
    /\ circuit_state["E1"] = NewCircuit
    /\ circuit_state["E2"].state = "open"

-----------------------------------------------------------------------------
(* The watchlist and its LRU bookkeeping *)

WATCHLIST_MAX_SIZE == 2

\* the wallets of the data file and the counterparties seen in transactions
Addresses == Wallets \cup {"W3", "W4"}

\* how many wallets of the data file pass GAIN_FILTER and WIN_RATE_FILTER
MaxFiltered == 3

Without(s, x) == SelectSeq(s, LAMBDA y : y # x)

\* list.remove(x): the first occurrence goes
Remove(s, x) ==
    LET i == CHOOSE k \in DOMAIN s : s[k] = x /\ \A j \in 1..(k - 1) : s[j] # x
    IN  SubSeq(s, 1, i - 1) \o SubSeq(s, i + 1, Len(s))

register_watchlist_access(wallet, list, usage) ==
    [usage |-> Append(Without(usage, wallet), wallet),
     watchlist |-> IF wallet \in Range(list) THEN list ELSE Append(list, wallet)]

RECURSIVE evict_watchlist_forget_only(_, _)
\* evict_watchlist_if_needed popping the usage entries without removing the wallets
evict_watchlist_forget_only(list, usage) ==
    IF Len(list) > WATCHLIST_MAX_SIZE /\ usage # <<>>
    THEN evict_watchlist_forget_only(list, <<>>)
    ELSE [usage |-> usage, watchlist |-> list]

RECURSIVE evict_watchlist_if_needed(_, _)
evict_watchlist_if_needed(list, usage) ==
    IF Len(list) > WATCHLIST_MAX_SIZE /\ usage # <<>>
    THEN LET oldest_wallet == Head(usage)
         IN  evict_watchlist_if_needed(
                 IF oldest_wallet \in Range(list) THEN Remove(list, oldest_wallet) ELSE list,
                 Tail(usage))
    ELSE [usage |-> usage, watchlist |-> list]

RECURSIVE RegisterAll(_, _, _)
\* load_initial_data: for wallet in list(watchlist): register_watchlist_access
RegisterAll(todo, list, usage) ==
    IF todo = <<>> THEN [usage |-> usage, watchlist |-> list]
    ELSE LET r == register_watchlist_access(Head(todo), list, usage)
         IN  RegisterAll(Tail(todo), r.watchlist, r.usage)

\* register_watchlist_access(wallet, watchlist); evict_watchlist_if_needed(watchlist)
RegisterAndEvict(wallet) ==
    LET r == register_watchlist_access(wallet, watchlist, _watchlist_usage)
        e == evict_watchlist_if_needed(r.watchlist, r.usage)
    IN  /\ watchlist' = e.watchlist
        /\ _watchlist_usage' = e.usage
        /\ evicted' = Range(r.watchlist) \ Range(e.watchlist)

lruOutside ==
    <<now, tz, resp, keyVars, rateVars, billVars, chain, df, stateVars, taskVars, alertVars,
      rpcVars, gcVars, storeVars, dispatchVars, lateVars>>

\* main_async: one scan task per wallet of list(watchlist), then asyncio.gather
GatherScans ==
    /\ DOMAIN scheduled = {}
    /\ watchlist # <<>>
    /\ scheduled' = [w \in Range(watchlist) |-> "waiting"]
    /\ UNCHANGED <<lruOutside, watchlist, _watchlist_usage, evicted, promoted>>

\* scan_wallet_async acquires the semaphore
ScanEnter(wallet) ==
    /\ wallet \in DOMAIN scheduled
    /\ scheduled[wallet] = "waiting"
    /\ RegisterAndEvict(wallet)
    /\ scheduled' = [scheduled EXCEPT ![wallet] = "running"]
    /\ UNCHANGED <<lruOutside, promoted>>

\* a counterparty of a profitable transaction with enough history joins the watchlist.
\* An address with no row in df gets one with net_total 0.0 and win_rate 0.0, which
\* does not pass filters above zero: the wallets of df stay the same; an address
\* that has a row keeps it.
AutoPromote(wallet, addr) ==
    /\ wallet \in DOMAIN scheduled
    /\ scheduled[wallet] = "running"
    /\ addr \notin Range(watchlist)
    /\ RegisterAndEvict(addr)
    /\ promoted' = promoted \cup {addr}
    /\ UNCHANGED <<lruOutside, scheduled>>

ScanReturn(wallet) ==
    /\ wallet \in DOMAIN scheduled
    /\ scheduled[wallet] = "running"
    /\ scheduled' = [w \in DOMAIN scheduled \ {wallet} |-> scheduled[w]]
    /\ UNCHANGED <<lruOutside, watchlist, _watchlist_usage, evicted, promoted>>

\* load_initial_data: the first WATCHLIST_MAX_SIZE filtered wallets, each registered
InitWatchlist ==
    /\ now = StartClock
    /\ ServiceIdle
    /\ RpcIdle
    /\ ChainIdle
    /\ StateIdle
    /\ AlertsIdle
    /\ TaskIdle
    /\ \E n \in 0..MaxFiltered : \E filtered \in [1..n -> Addresses] :
          LET top == Take(filtered, WATCHLIST_MAX_SIZE)
              r == RegisterAll(top, top, <<>>)
          IN  watchlist = r.watchlist /\ _watchlist_usage = r.usage
    /\ scheduled = <<>>
    /\ evicted = {}
    /\ promoted = {}
    /\ GcIdle
    /\ StoreIdle
    /\ DispatchIdle
    /\ LateIdle

NextWatchlist ==
    \/ GatherScans
    \/ \E wallet \in Addresses : ScanEnter(wallet)
    \/ \E wallet \in Addresses, addr \in Addresses : AutoPromote(wallet, addr)
    \/ \E wallet \in Addresses : ScanReturn(wallet)

SpecWatchlist == InitWatchlist /\ [][NextWatchlist]_vars

\* C14: after every evict_watchlist_if_needed, in every state reached through
\* load_initial_data, scans and auto-promotion, the watchlist holds at most
\* WATCHLIST_MAX_SIZE wallets.
C14_WatchlistBounded == Len(watchlist) <= WATCHLIST_MAX_SIZE

\* an eviction has just removed a wallet from a full watchlist
C14_Witness == evicted # {} /\ Len(watchlist) = WATCHLIST_MAX_SIZE

-----------------------------------------------------------------------------
(* garbage_collect_state on the states it can be given *)

SeenPool == {"s1", "s2", "s3", "s4"}

MaxStamp == 2

Stamps == 0..MaxStamp

\* one entry more than the cap
MaxSeen == MAX_SEEN_SIGNATURES + 1

\* an OrderedDict of at most MaxSeen signatures: no key twice
SeenDicts ==
    UNION {{seen \in [1..n -> SeenPool \X Stamps] :
               \A i, j \in 1..n : i # j => seen[i][1] # seen[j][1]} : n \in 0..MaxSeen}

\* mark_alert appends at time.time() and load_state sorts: timestamps never decrease
Sorted(seen) == \A i, j \in DOMAIN seen : i < j => seen[i][2] <= seen[j][2]

AlertDicts == UNION {[ws -> Stamps] : ws \in SUBSET Wallets}

gcOutside ==
    <<now, tz, resp, keyVars, rateVars, billVars, chain, df, watchlist, _last_sig_by_wallet,
      state_db, taskVars, alertVars, rpcVars, lruVars, storeVars, dispatchVars, lateVars>>

\* main_async: garbage_collect_state(loop_start.timestamp())
CollectGarbage ==
    /\ collected = NotCollected
    /\ LET gc == garbage_collect_state(now)
       IN  /\ _seen_signatures' = gc.seen
           /\ _last_alert_at' = gc.last_alert_at
    /\ collected' = [at |-> now, seen |-> _seen_signatures, last_alert_at |-> _last_alert_at]
    /\ UNCHANGED gcOutside

InitGcAny ==
    /\ now \in (STATE_TTL_SECONDS + 1)..MaxClock
    /\ ServiceIdle
    /\ RpcIdle
    /\ LruIdle
    /\ GcIdle
    /\ StoreIdle
    /\ DispatchIdle
    /\ LateIdle
    /\ ChainIdle
    /\ watchlist = <<>>
    /\ AlertsIdle
    /\ TaskIdle
    /\ _last_sig_by_wallet = <<>>
    /\ state_db = EmptyDb
    /\ _seen_signatures \in SeenDicts
    /\ _last_alert_at \in AlertDicts

SpecGcAny == InitGcAny /\ [][CollectGarbage]_vars

InitGc == InitGcAny /\ Sorted(_seen_signatures)

SpecGc == InitGc /\ [][CollectGarbage]_vars

\* C15: after every garbage_collect_state the seen set holds at most
\* MAX_SEEN_SIGNATURES entries, whatever entries it held before.
C15_SeenBounded ==
    collected # NotCollected => Len(_seen_signatures) <= MAX_SEEN_SIGNATURES

\* the seen set held more than the cap, in no timestamp order, none of it expired
C15_Witness ==
    /\ collected # NotCollected
    /\ Len(collected.seen) > MAX_SEEN_SIGNATURES
    /\ ~Sorted(collected.seen)
    /\ \A i \in DOMAIN collected.seen : collected.seen[i][2] >= collected.at - STATE_TTL_SECONDS
    /\ Len(_seen_signatures) = MAX_SEEN_SIGNATURES

Unexpired(ts, current_ts) == ts >= current_ts - STATE_TTL_SECONDS

\* C16: after garbage_collect_state(now) no signature of the seen set and no wallet
\* of last_alerts is older than now - STATE_TTL_SECONDS, every unexpired last alert
\* is kept, and the seen set is the unexpired entries it held, less the oldest ones
\* beyond the cap.
C16_ExpiredDroppedUnexpiredKept ==
    collected # NotCollected =>
        LET Fresh(e) == Unexpired(e[2], collected.at)
            fresh == SelectSeq(collected.seen, Fresh)
        IN  /\ \A i \in DOMAIN _seen_signatures : Fresh(_seen_signatures[i])
            /\ \A w \in DOMAIN _last_alert_at : Unexpired(_last_alert_at[w], collected.at)
            /\ _seen_signatures = LastN(fresh, MAX_SEEN_SIGNATURES)
            /\ \A w \in DOMAIN collected.last_alert_at :
                   Unexpired(collected.last_alert_at[w], collected.at)
                       => w \in DOMAIN _last_alert_at
                          /\ _last_alert_at[w] = collected.last_alert_at[w]

\* two expired signatures and an expired last alert were dropped, and an unexpired
\* signature and an unexpired last alert were kept
C16_Witness ==
    /\ collected # NotCollected
    /\ Len(collected.seen) >= Len(_seen_signatures) + 2
    /\ _seen_signatures # <<>>
    /\ DOMAIN _last_alert_at # {}
    /\ DOMAIN _last_alert_at # DOMAIN collected.last_alert_at
    /\ Len(collected.seen) <= MAX_SEEN_SIGNATURES

-----------------------------------------------------------------------------
(* save_state, then load_state in the next run of the process *)

LastSigDicts == UNION {[ws -> Range(Sigs)] : ws \in SUBSET Wallets}

storeOutside ==
    <<tz, resp, keyVars, rateVars, billVars, chain, df, watchlist, taskVars, alertVars,
      rpcVars, lruVars, gcVars, dispatchVars, lateVars>>

\* the periodic snapshot, or save_on_exit
SaveState ==
    /\ snapshot.reloaded < 0
    /\ state_db' = save_state
    /\ snapshot' = [at |-> now, reloaded |-> 0 - 1, seen |-> _seen_signatures,
                    last_alert_at |-> _last_alert_at,
                    last_sig_by_wallet |-> _last_sig_by_wallet]
    /\ UNCHANGED <<now, _last_sig_by_wallet, _seen_signatures, _last_alert_at, storeOutside>>

\* the process starts again on the state file: load_state into empty module state
LoadState ==
    /\ snapshot.at >= 0
    /\ snapshot.reloaded < 0
    /\ LET loaded == load_state
       IN  /\ _last_sig_by_wallet' = loaded.last_sig_by_wallet
           /\ _seen_signatures' = loaded.seen
           /\ _last_alert_at' = loaded.last_alert_at
    /\ snapshot' = [snapshot EXCEPT !.reloaded = now]
    /\ UNCHANGED <<now, state_db, storeOutside>>

\* time passes between the scans, the snapshot and the restart
TickStore ==
    /\ snapshot.reloaded < 0
    /\ TickScan

\* the module state a scan cycle can leave: signatures in timestamp order, at most
\* MAX_SEEN_SIGNATURES of them, nothing stamped in the future
InitStore ==
    /\ now = MaxStamp
    /\ ServiceIdle
    /\ RpcIdle
    /\ LruIdle
    /\ GcIdle
    /\ StoreIdle
    /\ DispatchIdle
    /\ LateIdle
    /\ ChainIdle
    /\ watchlist = <<>>
    /\ AlertsIdle
    /\ TaskIdle
    /\ state_db = EmptyDb
    /\ _last_sig_by_wallet \in LastSigDicts
    /\ _seen_signatures \in {seen \in SeenDicts :
           /\ Sorted(seen)
           /\ Len(seen) <= MAX_SEEN_SIGNATURES
           /\ SeenKeys(seen) \subseteq Range(Sigs)}
    /\ _last_alert_at \in AlertDicts

NextStore == TickStore \/ SaveState \/ LoadState

SpecStore == InitStore /\ [][NextStore]_vars

Reloaded == snapshot.at >= 0 /\ snapshot.reloaded >= 0

\* no entry of the snapshot was within its TTL at the save and past it at the reload
NoTtlCrossing ==
    /\ \A i \in DOMAIN snapshot.seen :
          Unexpired(snapshot.seen[i][2], snapshot.at)
              => Unexpired(snapshot.seen[i][2], snapshot.reloaded)
    /\ \A w \in DOMAIN snapshot.last_alert_at :
          Unexpired(snapshot.last_alert_at[w], snapshot.at)
              => Unexpired(snapshot.last_alert_at[w], snapshot.reloaded)

\* C17 (as stated): save_state followed by load_state, with no entry crossing its TTL
\* in between, leaves seen (with timestamps), last_alerts and last_signatures equal
\* to their values at the snapshot.
C17_RoundTripEqual ==
    Reloaded /\ NoTtlCrossing =>
        /\ Range(_seen_signatures) = Range(snapshot.seen)
        /\ _last_alert_at = snapshot.last_alert_at
        /\ _last_sig_by_wallet = snapshot.last_sig_by_wallet

\* C17 (amended): after save_state and load_state, last_signatures equals its value
\* at the snapshot, and seen (with timestamps) and last_alerts equal their values at
\* the snapshot less every entry older than STATE_TTL_SECONDS at the reload.
C17_RoundTripModuloTtl ==
    Reloaded =>
        LET live == {w \in DOMAIN snapshot.last_alert_at :
                        Unexpired(snapshot.last_alert_at[w], snapshot.reloaded)}
        IN  /\ Range(_seen_signatures)
                  = {e \in Range(snapshot.seen) : Unexpired(e[2], snapshot.reloaded)}
            /\ _last_alert_at = [w \in live |-> snapshot.last_alert_at[w]]
            /\ _last_sig_by_wallet = snapshot.last_sig_by_wallet

\* a snapshot with an expired signature, an expired last alert and live ones of both
\* was reloaded
C17_Witness ==
    /\ Reloaded
    /\ _seen_signatures # <<>>
    /\ Len(_seen_signatures) < Len(snapshot.seen)
    /\ DOMAIN _last_alert_at # {}
    /\ DOMAIN _last_alert_at # DOMAIN snapshot.last_alert_at
    /\ DOMAIN _last_sig_by_wallet # {}

-----------------------------------------------------------------------------
(* What scan_wallet_async does with an alert once it is appended and marked *)

DRY_RUN == CONFIG.dry_run

COPY_TRADER_ENABLED == CONFIG.copy_trader_enabled /\ ~CONFIG.dry_run

DISCORD_WEBHOOK == CONFIG.discord_webhook

DISCORD_DEDUP_SEC == 2

DISCORD_DEDUP_KEEP_SEC == 3

DISCORD_BREAKER_SEC == 2

DISCORD_MAX_RETRIES == 1                \* max_retries = 1

\* how many side effects the observer records
MaxOutbound == 2

\* for attempt in range(max_retries): the POSTs made when the i-th POST would be
\* answered statuses[i]; the loop returns at the first 200/204
Attempts(statuses) ==
    LET tried == 1..DISCORD_MAX_RETRIES
    IN  IF \E i \in tried : statuses[i]
        THEN CHOOSE i \in tried : statuses[i] /\ \A j \in 1..(i - 1) : ~statuses[j]
        ELSE DISCORD_MAX_RETRIES

\* send_discord_alert_async recording the dedup entry after the circuit check
send_discord_alert_async_dedup_on_send(wallet, profit, signature, statuses) ==
    LET dedup_key == <<wallet, signature, profit>>
        quiet == [sent_alerts |-> _sent_alerts, last_failure |-> _last_failure,
                  posted |-> FALSE, posts |-> 0]
        status_ok == statuses[Attempts(statuses)]
        sent == Put(_sent_alerts, dedup_key, now)
        kept == {k \in DOMAIN sent : sent[k] > now - DISCORD_DEDUP_KEEP_SEC}
        cleaned == [k \in kept |-> sent[k]]
    IN  IF ~DISCORD_WEBHOOK THEN quiet
        ELSE IF dedup_key \in DOMAIN _sent_alerts
                   /\ now - _sent_alerts[dedup_key] < DISCORD_DEDUP_SEC
        THEN quiet
        ELSE IF now - Get(_last_failure, wallet, 0) < DISCORD_BREAKER_SEC
        THEN quiet
        ELSE [sent_alerts |-> cleaned,
              last_failure |-> IF status_ok
                               THEN [w \in DOMAIN _last_failure \ {wallet} |-> _last_failure[w]]
                               ELSE Put(_last_failure, wallet, now),
              posted |-> TRUE, posts |-> Attempts(statuses)]

\* send_discord_alert_async for one alert: what it leaves in its two caches, and
\* how many times it posted to the webhook
send_discord_alert_async(wallet, profit, signature, statuses) ==
    LET dedup_key == <<wallet, signature, profit>>
        quiet == [sent_alerts |-> _sent_alerts, last_failure |-> _last_failure,
                  posted |-> FALSE, posts |-> 0]
        status_ok == statuses[Attempts(statuses)]
        sent == Put(_sent_alerts, dedup_key, now)
        kept == {k \in DOMAIN sent : sent[k] > now - DISCORD_DEDUP_KEEP_SEC}
        cleaned == [k \in kept |-> sent[k]]
    IN  IF ~DISCORD_WEBHOOK THEN quiet
        ELSE IF dedup_key \in DOMAIN _sent_alerts
                   /\ now - _sent_alerts[dedup_key] < DISCORD_DEDUP_SEC
        THEN quiet
        ELSE IF now - Get(_last_failure, wallet, 0) < DISCORD_BREAKER_SEC
        THEN [quiet EXCEPT !.sent_alerts = cleaned]
        ELSE [sent_alerts |-> cleaned,
              last_failure |-> IF status_ok
                               THEN [w \in DOMAIN _last_failure \ {wallet} |-> _last_failure[w]]
                               ELSE Put(_last_failure, wallet, now),
              posted |-> TRUE, posts |-> Attempts(statuses)]

\* the copy-trade calls of the alert branch: positions closed on a loss (profit < -0.1,
\* profits being whole numbers here), then one opened
CopyTrades(wallet, profit, primary_sig) ==
    (IF COPY_TRADER_ENABLED /\ profit < 0 THEN <<[kind |-> "close", wallet |-> wallet]>>
     ELSE <<>>)
    \o (IF COPY_TRADER_ENABLED /\ profit >= PROFIT_ALERT_THRESHOLD /\ primary_sig # ""
        THEN <<[kind |-> "open", wallet |-> wallet]>>
        ELSE <<>>)

dispatchOutside ==
    <<tz, resp, keyVars, rateVars, billVars, scanVars, rpcVars, lruVars, gcVars, storeVars,
      estVars, healthVars, loopVars, sigVars, gauntletVars, pickVars>>

\* the alert branch of scan_wallet_async after mark_alert, for an alert that passed
\* the filters: send_alert unless DRY_RUN, the Discord alert, the copy trader.
\* send_alert is called with tier=..., which it does not take: outside DRY_RUN the
\* call raises TypeError and the task ends there.
Dispatch(wallet, profit, primary_sig, statuses) ==
    /\ profit >= PROFIT_ALERT_THRESHOLD
    /\ Len(outbound) < MaxOutbound
    /\ fanout' = [wallet |-> wallet, signature |-> primary_sig, profit |-> profit,
                   invoked |-> DRY_RUN, task |-> IF DRY_RUN THEN "running" ELSE "raised"]
    /\ IF ~DRY_RUN
       THEN UNCHANGED <<_sent_alerts, _last_failure, outbound>>
       ELSE LET discord == send_discord_alert_async(wallet, profit, primary_sig, statuses)
            IN  /\ _sent_alerts' = discord.sent_alerts
                /\ _last_failure' = discord.last_failure
                /\ outbound' = outbound
                                \o (IF discord.posted
                                    THEN <<[kind |-> "discord", wallet |-> wallet,
                                            signature |-> primary_sig, profit |-> profit,
                                            at |-> now, statuses |-> statuses,
                                            posts |-> discord.posts]>>
                                    ELSE <<>>)
                                \o CopyTrades(wallet, profit, primary_sig)
    /\ UNCHANGED <<now, CONFIG, dispatchOutside>>

InitDispatch ==
    /\ now = StartClock
    /\ ServiceIdle
    /\ ScanIdle
    /\ RpcIdle
    /\ LruIdle
    /\ GcIdle
    /\ StoreIdle
    /\ LateIdle
    /\ CONFIG \in [dry_run : BOOLEAN, copy_trader_enabled : BOOLEAN,
                    discord_webhook : BOOLEAN]
    /\ _sent_alerts = <<>>
    /\ _last_failure = <<>>
    /\ outbound = <<>>

NextDispatch ==
    \/ TickScan
    \/ \E wallet \in Wallets, profit \in Profits, primary_sig \in Range(Sigs),
          statuses \in [1..(DISCORD_MAX_RETRIES + 1) -> BOOLEAN] :
          Dispatch(wallet, profit, primary_sig, statuses)

SpecDispatch == InitDispatch /\ [][NextDispatch]_vars

\* C18: with DRY_RUN true, over any sequence of emitted alerts, no chat-webhook HTTP
\* send is made for an alert and no copy-trade position is opened or closed.
C18_DryRunNoOutbound == DRY_RUN => outbound = <<>>

-----------------------------------------------------------------------------
(* The alert ring between the scan loop and the API thread *)

ALERT_COUNTERPARTIES == 2             \* counterparties[:10]

\* alert_event as scan_wallet_async builds it, with the fields the API passes on
alert_event(wallet, profit, pnl_confidence, primary_sig, counterparties) ==
    ScanAlert(wallet, profit, pnl_confidence, primary_sig)
    @@ [win_rate |-> 1, zscore |-> 0,
        counterparties |-> Take(counterparties, ALERT_COUNTERPARTIES),
        confidence_reasons |-> [price_coverage |-> 1],
        timestamp |-> [type |-> "datetime", at |-> now],
        tier |-> "free"]

ringOutside ==
    <<tz, keyVars, billVars, chain, df, watchlist, stateVars, taskVars, alerts, emit,
      primaries, restVars>>

\* scan thread: alerts_queue.append(alert_event)
RingAppend(wallet, counterparties) ==
    /\ daas_mode
    /\ Len(alerts_queue) <= ALERTS_QUEUE_MAX
    /\ alerts_queue' = Append(alerts_queue,
                              alert_event(wallet, PROFIT_ALERT_THRESHOLD, "high", Sigs[1],
                                          counterparties))
    /\ UNCHANGED <<now, resp, rateVars, ringOutside>>

\* scan thread: if len(alerts_queue) > 1000: alerts_queue.pop(0)
RingTrim ==
    /\ Len(alerts_queue) > ALERTS_QUEUE_MAX
    /\ alerts_queue' = Tail(alerts_queue)
    /\ UNCHANGED <<now, resp, rateVars, ringOutside>>

\* API thread: GET /api/v1/signals
HandleSignals(header) ==
    /\ DataRequest("signals", header)
    /\ UNCHANGED <<now, alerts_queue, ringOutside>>

\* one key of some tier, the ring empty
InitSignals ==
    /\ now = 0
    /\ tz = 0
    /\ \E tier \in Tiers : api_keys = {[key_hash |-> hash_key("daas_1"), tier |-> tier,
                                         expires_at |-> NoExpiry, is_active |-> 1]}
    /\ counters = <<>>
    /\ resp = NoResp
    /\ obs = <<>>
    /\ InitBilling
    /\ ScanIdle
    /\ RestIdle

NextSignals ==
    \/ Tick
    \/ \E wallet \in Wallets, counterparties \in {<<"W3", "W4", "W1">>} :
          RingAppend(wallet, counterparties)
    \/ RingTrim
    \/ \E header \in Headers : HandleSignals(header)

SpecSignals == InitSignals /\ [][NextSignals]_vars

AnalyticFields == {"win_rate", "zscore", "pnl_confidence", "confidence_reasons"}

\* what a tier must not receive, and what it must
Withheld(tier) ==
    CASE tier = "free" -> AnalyticFields \cup {"counterparties"}
      [] tier = "pro" -> {"counterparties"}
      [] OTHER -> {}

Granted(tier) ==
    CASE tier = "free" -> {}
      [] tier = "pro" -> AnalyticFields
      [] OTHER -> AnalyticFields \cup {"counterparties"}

\* C19: the signals response is shaped by the caller's tier: for every alert of the
\* ring's tail a free key receives none of win-rate, z-score, confidence, sub-metrics
\* and counterparties, a pro key receives the first four but not the counterparties,
\* and an elite key receives the counterparties too.
C19_ShapedByTier ==
    [][\A header \in KeyTokens :
          HandleSignals(header) /\ resp'.status = 200 =>
              LET tier == SpecTier(header)
              IN  /\ Len(resp'.signals) = Len(LastN(alerts_queue, API_SIGNALS_TAIL))
                  /\ \A i \in DOMAIN resp'.signals :
                        /\ DOMAIN resp'.signals[i] \cap Withheld(tier) = {}
                        /\ Granted(tier) \subseteq DOMAIN resp'.signals[i]]_vars

\* C20: the ring changes only by an append at its end or the loss of its oldest
\* entry, never holds more than the cap once trimmed, and every admitted GET
\* /api/v1/signals returns exactly the last min(100, |ring|) alerts in ring order,
\* whatever the scan thread is doing.
C20_RingTailReturned ==
    [][/\ alerts_queue' # alerts_queue =>
            \/ /\ Len(alerts_queue') = Len(alerts_queue) + 1
               /\ SubSeq(alerts_queue', 1, Len(alerts_queue)) = alerts_queue
            \/ /\ Len(alerts_queue) > ALERTS_QUEUE_MAX
               /\ alerts_queue' = Tail(alerts_queue)
       /\ Len(alerts_queue') <= ALERTS_QUEUE_MAX + 1
       /\ \A header \in KeyTokens :
            HandleSignals(header) /\ resp'.status = 200 =>
                /\ resp'.body = "signals"
                /\ resp'.signals = LastN(alerts_queue, API_SIGNALS_TAIL)]_vars

-----------------------------------------------------------------------------
\* profit_estimator.py: the enriched profit estimator.  Amounts are whole model
\* units of SOL (balances, fees, WSOL) or of a token; a price is SOL per token.

WSOL_MINT == "WSOL"
Mints == {WSOL_MINT, "TOK"}

BALANCE_TOLERANCE_PCT == 10

MaxTx == 1

\* the balances a transaction can move, its fees and its inner instruction counts
Deltas == {0 - 20, 2}
Fees == {0, 1}
InnerCounts == {0, 6}

Abs(x) == IF x < 0 THEN 0 - x ELSE x

RECURSIVE SumOver(_, _)
SumOver(keys, value) ==
    IF keys = {} THEN 0
    ELSE LET k == CHOOSE k \in keys : TRUE
         IN  value[k] + SumOver(keys \ {k}, value)

lamport_change(tx) == tx.post_sol - tx.pre_sol

\* pre_tokens and post_tokens are the wallet's own entries, mint -> uiAmount;
\* fetched is what the price APIs return for the mints they know
estimate_token_delta(pre_tokens, post_tokens, cache, fetched) ==
    LET all_mints == DOMAIN pre_tokens \union DOMAIN post_tokens
        token_delta == [m \in all_mints |-> Get(post_tokens, m, 0) - Get(pre_tokens, m, 0)]
        moved == {m \in all_mints : token_delta[m] # 0 /\ m # WSOL_MINT}
        looked == {m \in moved : m \notin DOMAIN cache /\ m \in DOMAIN fetched}
        cache2 == [m \in DOMAIN cache \union looked |->
                      IF m \in DOMAIN cache THEN cache[m] ELSE fetched[m]]
        valued == {m \in moved : m \in DOMAIN cache2}
        value == [m \in valued |-> token_delta[m] * cache2[m]]
    IN  [delta_sol |-> SumOver(valued, value),
         delta_wsol_sol |-> IF WSOL_MINT \in all_mints THEN token_delta[WSOL_MINT] ELSE 0,
         cache |-> cache2]

NoTotals(cache) ==
    [profit |-> 0, total_tokens |-> 0, priced_tokens |-> 0, total_inner_inst |-> 0,
     fee_known |-> TRUE, fee_total |-> 0, sol_delta_sum |-> 0, token_delta_sum |-> 0,
     cache |-> cache]

\* the body of the loop over signatures[:max_tx], for a transaction the RPC returned
RECURSIVE EstimateEach(_, _, _)
EstimateEach(txs, acc, fetched) ==
    IF txs = <<>> THEN acc
    ELSE LET tx == Head(txs)
             sol_delta == lamport_change(tx)
             all_tokens_this_tx == DOMAIN tx.pre_tokens \union DOMAIN tx.post_tokens
             td == estimate_token_delta(tx.pre_tokens, tx.post_tokens, acc.cache, fetched)
         IN  EstimateEach(Tail(txs),
                 [profit |-> acc.profit + sol_delta + td.delta_sol + td.delta_wsol_sol - tx.fee,
                  total_tokens |-> acc.total_tokens + Cardinality(all_tokens_this_tx),
                  priced_tokens |-> acc.priced_tokens
                      + Cardinality(all_tokens_this_tx \intersect DOMAIN td.cache),
                  total_inner_inst |-> acc.total_inner_inst + tx.inner,
                  fee_known |-> acc.fee_known /\ tx.fee # 0,
                  fee_total |-> acc.fee_total + tx.fee,
                  sol_delta_sum |-> acc.sol_delta_sum + Abs(td.delta_wsol_sol) + Abs(sol_delta),
                  token_delta_sum |-> acc.token_delta_sum + Abs(td.delta_sol),
                  cache |-> td.cache],
                 fetched)

\* estimate_profit_enriched(rpc, wallet, signatures, max_tx, price_cache); the ratios
\* price_coverage < 0.7, route_complexity > 5.0 and balance_alignment < 0.8 are
\* compared after cross-multiplication
estimate_profit_enriched(txs, cache, fetched) ==
    LET t == EstimateEach(Take(txs, MaxTx), NoTotals(cache), fetched)
        n == IF Len(Take(txs, MaxTx)) > 1 THEN Len(Take(txs, MaxTx)) ELSE 1
        low_coverage == t.total_tokens > 0 /\ 10 * t.priced_tokens < 7 * t.total_tokens
        complex_route == t.total_inner_inst > 5 * n
        total_valorized == Abs(t.sol_delta_sum) + t.token_delta_sum
        total_observed == Abs(t.profit) + t.fee_total
        aligned ==
            /\ total_valorized > 0
            /\ 100 * Abs(total_valorized - total_observed)
                   <= BALANCE_TOLERANCE_PCT * total_valorized
        score == 2 - (IF low_coverage \/ complex_route THEN 1 ELSE 0)
                   - (IF ~t.fee_known \/ ~aligned THEN 1 ELSE 0)
    IN  [profit |-> t.profit,
         pnl_confidence |-> <<"low", "med", "high">>[score + 1],
         cache |-> t.cache]

\* the transactions of the wallet: which balances they list and by how much each moves
TokenBalances == UNION {[ms -> {100}] : ms \in SUBSET Mints}

Transactions ==
    {[pre_sol |-> 100, post_sol |-> 100 + d, pre_tokens |-> pre, post_tokens |-> post,
      fee |-> fee, inner |-> inner] :
        d \in Deltas \union {0}, pre \in TokenBalances,
        post \in {f \in UNION {[ms -> {100 + m : m \in Deltas \union {0}}] : ms \in SUBSET Mints} :
                     "TOK" \in DOMAIN f => f["TOK"] >= 100},
        fee \in Fees, inner \in InnerCounts}

estOutside ==
    <<now, tz, resp, keyVars, rateVars, billVars, scanVars, rpcVars, lruVars, gcVars,
      storeVars, dispatchVars, healthVars, loopVars, fanVars, sigVars, gauntletVars, pickVars>>

\* one call of the estimator on one transaction of the wallet
Estimate(tx, fetched) ==
    /\ Len(estimate.txs) < 2
    /\ DOMAIN tx.pre_tokens = DOMAIN tx.post_tokens
    /\ LET r == estimate_profit_enriched(<<tx>>, price_cache, fetched)
       IN  /\ price_cache' = r.cache
           /\ estimate' = [txs |-> Append(estimate.txs, tx),
                           results |-> Append(estimate.results,
                               [profit |-> r.profit, pnl_confidence |-> r.pnl_confidence])]
    /\ UNCHANGED estOutside

\* the price cache never holds WSOL: estimate_token_delta prices every other mint only
InitEstimator ==
    /\ now = StartClock
    /\ ServiceIdle
    /\ ScanIdle
    /\ RpcIdle
    /\ LruIdle
    /\ GcIdle
    /\ StoreIdle
    /\ DispatchIdle
    /\ HealthIdle
    /\ LoopIdle
    /\ FanIdle
    /\ SigIdle
    /\ GauntletIdle /\ PickIdle
    /\ price_cache \in {<<>>, [m \in {"TOK"} |-> 2]}
    /\ estimate = NotEstimated

SpecEstimator ==
    InitEstimator /\ [][\E tx \in Transactions, fetched \in {<<>>, [m \in {"TOK"} |-> 3]} :
                          Estimate(tx, fetched)]_vars

\* tx changes only the balance named by kind ("wsol" or "native"), by d
OnlyChanges(tx, kind, d) ==
    /\ d # 0
    /\ lamport_change(tx) = (IF kind = "native" THEN d ELSE 0)
    /\ \A m \in DOMAIN tx.post_tokens :
          tx.post_tokens[m] - tx.pre_tokens[m] = (IF kind = "wsol" /\ m = WSOL_MINT THEN d ELSE 0)
    /\ kind = "wsol" => WSOL_MINT \in DOMAIN tx.post_tokens

\* the two transactions differ in nothing but where the balance moved
OtherwiseIdentical(a, b) ==
    /\ a.fee = b.fee
    /\ a.inner = b.inner
    /\ DOMAIN a.post_tokens \ {WSOL_MINT} = DOMAIN b.post_tokens \ {WSOL_MINT}

\* C21: a transaction that changes only the wallet's WSOL balance by D and an
\* otherwise identical one that changes only its native balance by D get the same
\* profit and the same confidence label from the estimator.
C21_WsolSameAsNative ==
    \A i, j \in DOMAIN estimate.txs, d \in Deltas :
        (/\ OnlyChanges(estimate.txs[i], "wsol", d)
         /\ OnlyChanges(estimate.txs[j], "native", d)
         /\ OtherwiseIdentical(estimate.txs[i], estimate.txs[j]))
        => estimate.results[i] = estimate.results[j]

-----------------------------------------------------------------------------
\* GET /healthz on the API service (api_service.py) and on the health listener
\* (wallet_monitor.py, port 8001)

HEALTH_STALE_SEC == 2

Listeners == {"api", "health"}

healthOutside ==
    <<tz, keyVars, rateVars, billVars, scanVars, rpcVars, lruVars, gcVars, storeVars,
      dispatchVars, estVars, loopVars, fanVars, sigVars, gauntletVars, pickVars>>

\* main_async, top of a cycle: LAST_LOOP_TS.set(time.time())
CycleStart ==
    /\ LAST_LOOP_TS # now
    /\ LAST_LOOP_TS' = now
    /\ UNCHANGED <<now, resp, health, healthOutside>>

\* ApiHandler._handle_healthz
ApiHealthz ==
    /\ resp' = [NoResp EXCEPT !.status = 200, !.body = "OK"]
    /\ health' = [listener |-> "api", status |-> 200, at |-> now, loop_ts |-> LAST_LOOP_TS]
    /\ UNCHANGED <<now, LAST_LOOP_TS, healthOutside>>

\* HealthHandler.do_GET for /healthz; APP_UP is set to 1 before the listener starts
\* and is never lowered
HealthzGet ==
    /\ LET loop_ts == LAST_LOOP_TS
           ok == IF loop_ts > 0 THEN (now - loop_ts) < HEALTH_STALE_SEC ELSE FALSE
       IN  health' = [listener |-> "health", status |-> (IF ok THEN 200 ELSE 500),
                      at |-> now, loop_ts |-> loop_ts]
    /\ UNCHANGED <<now, resp, LAST_LOOP_TS, healthOutside>>

TickHealth ==
    /\ now < MaxClock
    /\ now' = now + 1
    /\ UNCHANGED <<resp, LAST_LOOP_TS, health, healthOutside>>

InitHealth ==
    /\ now = StartClock
    /\ ServiceIdle
    /\ ScanIdle
    /\ RestIdle

NextHealth == TickHealth \/ CycleStart \/ ApiHealthz \/ HealthzGet

SpecHealth == InitHealth /\ [][NextHealth]_vars

\* no scan cycle had started in the HEALTH_STALE_SEC before the answer h
Stale(h) == h.loop_ts = 0 \/ h.at - h.loop_ts >= HEALTH_STALE_SEC

\* C22: on both listeners GET /healthz answers 500 whenever no scan cycle has
\* started in the last 180 s, and 200 otherwise.
C22_HealthzStaleIs500 ==
    health.listener \in Listeners => health.status = (IF Stale(health) THEN 500 ELSE 200)

-----------------------------------------------------------------------------
\* main_async's scan loop (wallet_monitor.py): the semaphore-guarded scan tasks,
\* asyncio.gather, the per-cycle steps after it, and the ways out of the process.
\* What a task does inside the guarded section is modelled by the specifications
\* above; here a task is waiting for a permit, inside, or out by one of its exits.

NOTIF_DEDUP_SEC == 2
NOTIF_CACHE_MAX == 10

LoopWallets == <<"W1", "W2", "W3">>

Exits == {"returned", "early", "raised"}
PostSteps ==
    {"update_dashboard", "update_report", "generate_detailed_report", "save_detailed_report",
     "heartbeat_report", "send_report_to_discord", "save_state"}
\* the steps that catch their own exceptions
Guarded == {"send_report_to_discord", "save_state"}

Inside == {w \in DOMAIN tasks : tasks[w] = "inside"}
Finished == {w \in DOMAIN tasks : tasks[w] \in Exits}

\* async with sem, on the way out: a permit is given back only on a return
sem_aexit_on_return(value, exit) == IF exit = "raised" THEN value ELSE value + 1

\* async with sem, on the way out (Semaphore.release)
sem_aexit(value, exit) == value + 1

\* asyncio.gather without return_exceptions: the first exception is raised to the caller
gather_first_exception(ts) ==
    IF \E w \in DOMAIN ts : ts[w] = "raised" THEN "raised"
    ELSE IF \A w \in DOMAIN ts : ts[w] \in Exits THEN "results"
    ELSE "pending"

\* asyncio.gather(*tasks, return_exceptions=True): done when every task is
gather(ts) == IF \A w \in DOMAIN ts : ts[w] \in Exits THEN "results" ELSE "pending"

\* send_discord_system_notification_async(status, ...): the cache and the posts after it
send_discord_system_notification_async(status, cache, posts) ==
    LET cache_key == <<status, now \div NOTIF_DEDUP_SEC>>
        added == cache \union {cache_key}
    IN  IF ~DISCORD_WEBHOOK \/ cache_key \in cache
        THEN [cache |-> cache, posts |-> posts]
        ELSE [cache |-> IF Cardinality(added) > NOTIF_CACHE_MAX THEN {} ELSE added,
              posts |-> Append(posts, status)]

loopOutside ==
    <<tz, resp, keyVars, rateVars, billVars, chain, df, watchlist, _last_sig_by_wallet, loop,
      starts, pc, batches, alertVars, rpcVars, lruVars, gcVars, storeVars, dispatchVars,
      estVars, health, fanVars, sigVars, gauntletVars, pickVars>>

\* top of the while loop: the loop timestamp, garbage collection, one task per wallet
CycleBegin ==
    /\ cycle = "top"
    /\ LAST_LOOP_TS' = now
    /\ LET gc == garbage_collect_state(now)
       IN  /\ _seen_signatures' = gc.seen
           /\ _last_alert_at' = gc.last_alert_at
    /\ tasks' = [w \in Range(watchlist) |-> "waiting"]
    /\ cycle' = "gather"
    /\ UNCHANGED <<now, state_db, save_counter, sem, stopped_by, _sent_cache, notified,
                   exit_saves, loopOutside>>

\* scan_wallet_async: async with sem, on the way in
Acquire(w) ==
    /\ cycle = "gather"
    /\ w \in DOMAIN tasks
    /\ tasks[w] = "waiting"
    /\ sem > 0
    /\ sem' = sem - 1
    /\ tasks' = [tasks EXCEPT ![w] = "inside"]
    /\ UNCHANGED <<now, state_db, save_counter, _seen_signatures, _last_alert_at, LAST_LOOP_TS,
                   cycle, stopped_by, _sent_cache, notified, exit_saves, loopOutside>>

\* scan_wallet_async leaves the guarded section: after the last batch, by one of
\* its early returns, or with an exception
Leave(w, exit) ==
    /\ cycle = "gather"
    /\ w \in DOMAIN tasks
    /\ tasks[w] = "inside"
    /\ sem' = sem_aexit(sem, exit)
    /\ tasks' = [tasks EXCEPT ![w] = exit]
    /\ UNCHANGED <<now, state_db, save_counter, _seen_signatures, _last_alert_at, LAST_LOOP_TS,
                   cycle, stopped_by, _sent_cache, notified, exit_saves, loopOutside>>

\* main(): except Exception: the "error" notification, then raise
Raised ==
    LET n == send_discord_system_notification_async("error", _sent_cache, notified)
    IN  /\ cycle' = "exiting"
        /\ stopped_by' = "exception"
        /\ _sent_cache' = n.cache
        /\ notified' = n.posts

\* results = await asyncio.gather(*tasks, return_exceptions=True)
GatherDone ==
    /\ cycle = "gather"
    /\ gather(tasks) # "pending"
    /\ IF gather(tasks) = "raised"
       THEN Raised
       ELSE /\ cycle' = "post"
            /\ UNCHANGED <<stopped_by, _sent_cache, notified>>
    /\ UNCHANGED <<now, state_db, save_counter, _seen_signatures, _last_alert_at, LAST_LOOP_TS,
                   sem, tasks, exit_saves, loopOutside>>

\* the steps of a cycle after the gather: the dashboard and report refresh when the
\* report interval has passed, the heartbeat when its interval has, save_state every
\* SAVE_EVERY cycles.  At most one step fails; a failure outside Guarded leaves main_async.
PostScan(report_due, heartbeat_due, failing) ==
    /\ cycle = "post"
    /\ LET save_due == save_counter + 1 >= SAVE_EVERY
           ran == (IF report_due
                   THEN {"update_dashboard", "update_report", "generate_detailed_report",
                         "save_detailed_report"}
                   ELSE {})
                  \union (IF heartbeat_due
                          THEN {"heartbeat_report", "send_report_to_discord"} ELSE {})
                  \union (IF save_due THEN {"save_state"} ELSE {})
           raised == failing \in ran \ Guarded
       IN  /\ failing \in ran \union {"none"}
           /\ IF raised
              THEN /\ Raised
                   /\ UNCHANGED <<save_counter, state_db>>
              ELSE /\ cycle' = "sleep"
                   /\ save_counter' = (IF save_due THEN 0 ELSE save_counter + 1)
                   /\ state_db' = (IF save_due /\ failing # "save_state"
                                   THEN save_state ELSE state_db)
                   /\ UNCHANGED <<stopped_by, _sent_cache, notified>>
    /\ UNCHANGED <<now, _seen_signatures, _last_alert_at, LAST_LOOP_TS, sem, tasks, exit_saves,
                   loopOutside>>

\* await asyncio.sleep(max(5.0, TX_REFRESH_SECONDS - elapsed))
Sleep ==
    /\ cycle = "sleep"
    /\ cycle' = "top"
    /\ now' = (IF now < MaxClock THEN now + 1 ELSE now)
    /\ UNCHANGED <<state_db, save_counter, _seen_signatures, _last_alert_at, LAST_LOOP_TS, sem,
                   tasks, stopped_by, _sent_cache, notified, exit_saves, loopOutside>>

\* save_on_exit(): save_state, then the "stopped" notification from a new thread;
\* a thread that cannot be started is an exception save_on_exit logs
save_on_exit(thread_starts) ==
    LET n == send_discord_system_notification_async("stopped", _sent_cache, notified)
    IN  /\ state_db' = save_state
        /\ exit_saves' = exit_saves + 1
        /\ _sent_cache' = (IF thread_starts THEN n.cache ELSE _sent_cache)
        /\ notified' = (IF thread_starts THEN n.posts ELSE notified)

\* SIGTERM or SIGINT: lambda s, f: (save_on_exit(), exit(0))
Signal ==
    /\ cycle \in {"top", "gather", "post", "sleep"}
    /\ save_on_exit(TRUE)
    /\ cycle' = "exiting"
    /\ stopped_by' = "signal"
    /\ UNCHANGED <<now, save_counter, _seen_signatures, _last_alert_at, LAST_LOOP_TS, sem, tasks,
                   loopOutside>>

\* the notification thread is joined for up to 3 s, and the interpreter unwinds
ExitDelay ==
    /\ cycle = "exiting"
    /\ now < MaxClock
    /\ now' = now + 1
    /\ UNCHANGED <<state_db, save_counter, _seen_signatures, _last_alert_at, LAST_LOOP_TS, sem,
                   tasks, cycle, stopped_by, _sent_cache, notified, exit_saves, loopOutside>>

\* interpreter exit: atexit runs the registered save_on_exit.  Whether a thread can
\* still be started then depends on the interpreter (CPython 3.12 and later refuse).
AtExit(thread_starts) ==
    /\ cycle = "exiting"
    /\ save_on_exit(thread_starts)
    /\ cycle' = "exited"
    /\ UNCHANGED <<now, save_counter, _seen_signatures, _last_alert_at, LAST_LOOP_TS, sem, tasks,
                   stopped_by, loopOutside>>

\* main_async up to the while loop: the state is loaded, the "started" notification
\* is sent, the semaphore is new
InitLoop ==
    /\ now = StartClock
    /\ ServiceIdle
    /\ ChainIdle
    /\ StateIdle
    /\ AlertsIdle
    /\ TaskIdle
    /\ watchlist = LoopWallets
    /\ RpcIdle
    /\ LruIdle
    /\ GcIdle
    /\ StoreIdle
    /\ EstIdle
    /\ HealthIdle
    /\ FanIdle
    /\ SigIdle
    /\ GauntletIdle /\ PickIdle
    /\ CONFIG \in [dry_run : {TRUE}, copy_trader_enabled : {FALSE}, discord_webhook : BOOLEAN]
    /\ _sent_alerts = <<>>
    /\ _last_failure = <<>>
    /\ outbound = <<>>
    /\ sem = MAX_CONCURRENCY
    /\ tasks = <<>>
    /\ cycle = "top"
    /\ stopped_by = ""
    /\ _sent_cache = send_discord_system_notification_async("started", {}, <<>>).cache
    /\ notified = <<>>
    /\ exit_saves = 0

NextTask == \E w \in Range(LoopWallets) : Acquire(w) \/ \E exit \in Exits : Leave(w, exit)

NextCycle ==
    \/ CycleBegin
    \/ NextTask
    \/ GatherDone
    \/ \E report_due, heartbeat_due \in BOOLEAN, failing \in PostSteps \union {"none"} :
          PostScan(report_due, heartbeat_due, failing)
    \/ Sleep
    \/ ExitDelay
    \/ \E thread_starts \in BOOLEAN : AtExit(thread_starts)

\* the loop with no signal delivered; the event loop runs every task that can run
SpecCycle ==
    /\ InitLoop
    /\ [][NextCycle]_vars
    /\ WF_vars(NextTask)
    /\ WF_vars(GatherDone)

SpecLoop == InitLoop /\ [][NextCycle \/ Signal]_vars

\* C23: an exception raised inside one wallet's scan task never aborts the scan
\* cycle: every other task of the cycle still runs to its end and the cycle reaches
\* its post-scan steps.
C23_TaskExceptionIsolated ==
    (cycle = "gather" /\ \E w \in DOMAIN tasks : tasks[w] = "raised")
        ~> (cycle = "post" /\ Finished = DOMAIN tasks)

C23_Witness ==
    /\ cycle = "post"
    /\ \E w, v \in DOMAIN tasks : tasks[w] = "raised" /\ tasks[v] = "returned"

\* C24: a failure in a per-cycle step outside the scan tasks never terminates the
\* main loop: only a process signal stops it.
C24_StepFailureKeepsLoop == cycle \in {"exiting", "exited"} => stopped_by = "signal"

\* C25: at most MAX_CONCURRENCY scan tasks are inside the guarded section at any
\* instant, every task that leaves it, by completion, early return or exception,
\* gives its permit back, and all MAX_CONCURRENCY permits are free at the end of
\* every cycle.
C25_PermitsBoundedAndReturned ==
    /\ Cardinality(Inside) <= MAX_CONCURRENCY
    /\ sem = MAX_CONCURRENCY - Cardinality(Inside)
    /\ cycle \in {"post", "sleep", "top"} => sem = MAX_CONCURRENCY

C25_Witness ==
    /\ cycle = "post"
    /\ sem = MAX_CONCURRENCY
    /\ \A exit \in Exits : \E w \in DOMAIN tasks : tasks[w] = exit

Stops == SelectSeq(notified, LAMBDA status : status = "stopped")

\* C27: on SIGTERM or SIGINT, with a webhook configured, the process runs the state
\* snapshot and emits exactly one "stopped" system notification before it exits.
C27_OneStoppedNotification ==
    (cycle = "exited" /\ stopped_by = "signal" /\ DISCORD_WEBHOOK)
        => (exit_saves >= 1 /\ Len(Stops) = 1)

\* C26: with DAAS_MODE on and DRY_RUN off, every alert that passed the filters and
\* was appended to the ring is handed to the webhook fan-out (send_discord_alert_async
\* is called for it), and the task goes on with the remaining batches of the wallet.
C26_LiveAlertReachesFanout ==
    (daas_mode /\ ~DRY_RUN /\ fanout # NoFanout) => (fanout.invoked /\ fanout.task = "running")

\* endpoint e goes from closed or half-open to open in this step
Opens(e) == circuit_state[e].state # "open" /\ circuit_state'[e].state = "open"

\* C28: an endpoint's circuit opens exactly when it has had
\* RPC_CIRCUIT_BREAKER_FAILURES failures with no success in between (a success
\* resets the count to 0 and the state to closed); at that moment opened_at is now
\* and, with at least two endpoints, the index advances to the next endpoint, so
\* the current endpoint is no longer the one just opened.
C28_OpensAfterFailuresAndRotates ==
    [][\A e \in DOMAIN circuit_state :
          /\ (circuit_state'[e].failures > circuit_state[e].failures
                 /\ circuit_state'[e].failures >= RPC_CIRCUIT_BREAKER_FAILURES)
             => circuit_state'[e].state = "open"
          /\ circuit_state'[e].failures < circuit_state[e].failures
             => circuit_state'[e] = NewCircuit
          /\ Opens(e)
             => /\ circuit_state'[e].failures >= RPC_CIRCUIT_BREAKER_FAILURES
                /\ circuit_state'[e].failures = circuit_state[e].failures + 1
                /\ circuit_state'[e].opened_at = now
                /\ Len(endpoints) >= 2
                   => (index' = (index % Len(endpoints)) + 1 /\ endpoints[index'] # e)]_vars

-----------------------------------------------------------------------------
(* filter_new_signatures and build_signature_batches on listings of their own
   (wallet_monitor.py 1388-1443); an entry of a listing is a signature of
   SigPool, its slot is SlotOf *)

MaxSigs == 3        \* entries of a listing handed to filter_new_signatures
MaxBatchIn == 4     \* entries of an increment handed to build_signature_batches

FilterPool == {SigPool[i] : i \in 1..3}

\* the listings of at most n entries over pool
Listings(pool, n) == UNION {[1..k -> pool] : k \in 0..n}

\* an increment names a transaction once
Increments ==
    {s \in Listings(Range(SigPool), MaxBatchIn) :
        \A i, j \in DOMAIN s : s[i] = s[j] => i = j}

sigOutside ==
    <<now, tz, resp, keyVars, rateVars, billVars, chain, df, watchlist, _seen_signatures,
      _last_alert_at, state_db, taskVars, alertVars, rpcVars, lruVars, gcVars, storeVars,
      dispatchVars, estVars, healthVars, loopVars, fanVars, gauntletVars, pickVars>>

FilterNew(wallet, signatures) ==
    LET result == filter_new_signatures(wallet, signatures)
    IN  /\ filter_call' = [wallet |-> wallet, signatures |-> signatures,
                           before |-> _last_sig_by_wallet, subset |-> result.subset]
        /\ _last_sig_by_wallet' = result.last_sig_by_wallet
        /\ batch_call' = NotBuilt
        /\ UNCHANGED sigOutside

BuildBatches(signatures) ==
    /\ batch_call' = [signatures |-> signatures,
                      batches |-> build_signature_batches(signatures)]
    /\ filter_call' = NotFiltered
    /\ UNCHANGED <<_last_sig_by_wallet, sigOutside>>

NextSigs ==
    \/ \E wallet \in Wallets, signatures \in Listings(FilterPool, MaxSigs) :
          FilterNew(wallet, signatures)
    \/ \E signatures \in Increments : BuildBatches(signatures)

SpecSigs == InitScan /\ [][NextSigs]_vars

\* C29: filter_new_signatures(w, sigs) returns the first 5 (here FIRST_SCAN_TAKE)
\* entries when w has no last-seen signature, otherwise the entries strictly
\* before the first occurrence of the last-seen signature (all of them when it
\* does not occur); a non-empty sigs makes its head the last-seen signature of w
\* and touches no other wallet; an empty sigs returns nothing and changes nothing.
C29_FilterNewSignatures ==
    filter_call # NotFiltered =>
        LET w == filter_call.wallet
            sigs == filter_call.signatures
            before == filter_call.before
            subset == filter_call.subset
        IN  /\ sigs = <<>> => (subset = <<>> /\ _last_sig_by_wallet = before)
            /\ sigs # <<>> =>
                 /\ _last_sig_by_wallet =
                        [x \in DOMAIN before \cup {w} |-> IF x = w THEN sigs[1] ELSE before[x]]
                 /\ w \notin DOMAIN before =>
                        /\ Len(subset) = (IF Len(sigs) < FIRST_SCAN_TAKE THEN Len(sigs)
                                          ELSE FIRST_SCAN_TAKE)
                        /\ \A i \in DOMAIN subset : subset[i] = sigs[i]
                 /\ w \in DOMAIN before =>
                        \E k \in 0..Len(sigs) :
                           /\ subset = SubSeq(sigs, 1, k)
                           /\ \A i \in 1..k : sigs[i] # before[w]
                           /\ k < Len(sigs) => sigs[k + 1] = before[w]

\* a listing of three whose second entry is the last-seen signature: one entry
\* comes back and the head replaces the last-seen signature
C29_Witness ==
    /\ filter_call # NotFiltered
    /\ Len(filter_call.signatures) = 3
    /\ filter_call.wallet \in DOMAIN filter_call.before
    /\ filter_call.signatures[2] = filter_call.before[filter_call.wallet]
    /\ Len(filter_call.subset) = 1
    /\ _last_sig_by_wallet[filter_call.wallet] # filter_call.before[filter_call.wallet]

\* C30: build_signature_batches partitions its input: every signature of the
\* input is at exactly one place of one batch and the batches hold nothing
\* else, the signatures of a batch share a slot, no batch is longer than
\* ALERT_BATCH_SIZE, and an earlier batch never has a lower slot than a later one.
C30_BatchesPartitionBySlot ==
    LET sigs == batch_call.signatures
        bs == batch_call.batches
        Places == UNION {{<<b, j>> : j \in DOMAIN bs[b]} : b \in DOMAIN bs}
    IN  /\ \A i \in DOMAIN sigs :
              Cardinality({p \in Places : bs[p[1]][p[2]] = sigs[i]}) = 1
        /\ \A p \in Places : bs[p[1]][p[2]] \in Range(sigs)
        /\ \A b \in DOMAIN bs :
              /\ Len(bs[b]) <= ALERT_BATCH_SIZE
              /\ \A j, k \in DOMAIN bs[b] : SlotOf(bs[b][j]) = SlotOf(bs[b][k])
        /\ \A b, c \in DOMAIN bs :
              b < c => \A j \in DOMAIN bs[b], k \in DOMAIN bs[c] :
                          SlotOf(bs[b][j]) >= SlotOf(bs[c][k])

\* an increment of four, lowest slot first, three of them in one slot: the
\* slot is split in two batches and the lowest slot comes last
C30_Witness ==
    /\ Len(batch_call.signatures) = 4
    /\ Len(batch_call.batches) = 3
    /\ SlotOf(batch_call.signatures[1]) < SlotOf(batch_call.signatures[2])
    /\ SlotOf(batch_call.batches[1][1]) = SlotOf(batch_call.batches[2][1])
    /\ Len(batch_call.batches[1]) = ALERT_BATCH_SIZE

-----------------------------------------------------------------------------
(* The filters of the batch loop of scan_wallet_async with the blocked-alerts
   list (wallet_monitor.py 1505-1623) *)

MaxBatches == 3     \* batches that go through the filters in one behaviour

Batches == {<<Sigs[i]>> : i \in DOMAIN Sigs}

Blocked(wallet, reason) == [wallet |-> wallet, reason |-> reason]

\* the filters without the baseline test
BlockedReasonNoBaseline(wallet, profit, pnl_confidence, new_sigs) ==
    IF profit < PROFIT_ALERT_THRESHOLD THEN "profit_below_threshold"
    ELSE IF pnl_confidence \notin {"med", "high"} THEN "confidence_too_low"
    ELSE IF ~should_alert(wallet, new_sigs) THEN "cooldown"
    ELSE "none"

\* should_alert is the one test behind the "cooldown" entry: seen signatures and
\* the cooldown are not told apart
BlockedReason(wallet, profit, pnl_confidence, new_sigs) ==
    IF wallet \notin df THEN "wallet_filtered"
    ELSE IF profit < PROFIT_ALERT_THRESHOLD THEN "profit_below_threshold"
    ELSE IF pnl_confidence \notin {"med", "high"} THEN "confidence_too_low"
    ELSE IF ~should_alert(wallet, new_sigs) THEN "cooldown"
    ELSE "none"

gauntletOutside ==
    <<tz, resp, keyVars, rateVars, billVars, chain, df, watchlist, _last_sig_by_wallet,
      state_db, taskVars, rpcVars, lruVars, gcVars, storeVars, dispatchVars, estVars,
      healthVars, loopVars, fanVars, sigVars, pickVars>>

\* one iteration of the batch loop, the blocked-alerts list included
GauntletBatch(wallet, new_sigs, estimate_ok, profit, pnl_confidence) ==
    /\ Len(alerts) + Len(_blocked_alerts) < MaxBatches
    /\ IF ~estimate_ok
       THEN UNCHANGED <<alertVars, _last_alert_at, _seen_signatures, gauntletVars>>
       ELSE LET reason == BlockedReason(wallet, profit, pnl_confidence, new_sigs)
            IN  /\ verdict' = [wallet |-> wallet, new_sigs |-> new_sigs,
                               baseline |-> wallet \in df, profit |-> profit,
                               pnl_confidence |-> pnl_confidence,
                               seen |-> _seen_signatures, last_alert_at |-> _last_alert_at,
                               at |-> now, alerts |-> Len(alerts),
                               blocked |-> Len(_blocked_alerts)]
                /\ IF reason # "none"
                   THEN /\ _blocked_alerts' = Append(_blocked_alerts, Blocked(wallet, reason))
                        /\ UNCHANGED <<alertVars, _last_alert_at, _seen_signatures>>
                   ELSE LET primary_sig == new_sigs[1]
                            event == ScanAlert(wallet, profit, pnl_confidence, primary_sig)
                            marked == mark_alert(wallet, new_sigs)
                        IN  /\ alerts' = Append(alerts, event)
                            /\ alerts_queue' = QueuePush(alerts_queue, event)
                            /\ _last_alert_at' = marked.last_alert_at
                            /\ _seen_signatures' = marked.seen
                            /\ emit' = Emitted(wallet, "scan")
                            /\ primaries' = CountPrimary(primary_sig)
                            /\ UNCHANGED _blocked_alerts
    /\ UNCHANGED <<now, gauntletOutside>>

TickGauntlet ==
    /\ now < StartClock + ALERT_COOLDOWN_SEC
    /\ now' = now + 1
    /\ UNCHANGED <<gauntletOutside, stateVars, alertVars, gauntletVars>>

InitGauntlet == InitEngine /\ watchlist = <<"W1", "W2">> /\ df \in SUBSET Wallets

NextGauntlet ==
    \/ \E wallet \in Wallets, new_sigs \in Batches, estimate_ok \in BOOLEAN,
          profit \in Profits, pnl_confidence \in Confidences :
          GauntletBatch(wallet, new_sigs, estimate_ok, profit, pnl_confidence)
    \/ TickGauntlet

SpecGauntlet == InitGauntlet /\ [][NextGauntlet]_vars

\* the first filter of the spec's order that rejects the batch of verdict
Rejecting ==
    IF ~verdict.baseline THEN "baseline"
    ELSE IF verdict.profit < PROFIT_ALERT_THRESHOLD THEN "profit"
    ELSE IF verdict.pnl_confidence \notin {"med", "high"} THEN "confidence"
    ELSE IF \E i \in DOMAIN verdict.new_sigs : verdict.new_sigs[i] \in SeenKeys(verdict.seen)
         THEN "idempotence"
    ELSE IF verdict.at - Get(verdict.last_alert_at, verdict.wallet, 0) < ALERT_COOLDOWN_SEC
         THEN "cooldown"
    ELSE "none"

ReasonOf ==
    [baseline |-> "wallet_filtered", profit |-> "profit_below_threshold",
     confidence |-> "confidence_too_low", cooldown |-> "cooldown"]

\* C31: the filters apply in the order baseline, profit, confidence,
\* idempotence, cooldown; a batch the first of them rejects emits no alert and
\* appends exactly one blocked-alerts entry whose reason names that filter and
\* no other ("cooldown" for the cooldown; for idempotence a reason that is not
\* the reason of another filter); a batch none rejects emits the alert and
\* appends no entry.
C31_RejectedBatchRecordedWithItsFilter ==
    verdict # NoVerdict =>
        IF Rejecting = "none"
        THEN Len(alerts) = verdict.alerts + 1 /\ Len(_blocked_alerts) = verdict.blocked
        ELSE /\ Len(alerts) = verdict.alerts
             /\ Len(_blocked_alerts) = verdict.blocked + 1
             /\ _blocked_alerts[Len(_blocked_alerts)].wallet = verdict.wallet
             /\ IF Rejecting = "idempotence"
                THEN _blocked_alerts[Len(_blocked_alerts)].reason
                        \notin {ReasonOf[f] : f \in DOMAIN ReasonOf}
                ELSE _blocked_alerts[Len(_blocked_alerts)].reason = ReasonOf[Rejecting]

\* the same with idempotence and cooldown taken as one filter named "cooldown"
C31_RecordedUpToSharedReason ==
    verdict # NoVerdict =>
        IF Rejecting = "none"
        THEN Len(alerts) = verdict.alerts + 1 /\ Len(_blocked_alerts) = verdict.blocked
        ELSE /\ Len(alerts) = verdict.alerts
             /\ Len(_blocked_alerts) = verdict.blocked + 1
             /\ _blocked_alerts[Len(_blocked_alerts)].wallet = verdict.wallet
             /\ _blocked_alerts[Len(_blocked_alerts)].reason =
                   (IF Rejecting = "idempotence" THEN "cooldown" ELSE ReasonOf[Rejecting])

\* the claim's scenario: a second eligible signature within the cooldown of the
\* wallet's last alert is blocked with reason "cooldown"
C31_Scenario ==
    /\ verdict # NoVerdict
    /\ Rejecting = "cooldown"
    /\ verdict.wallet \in DOMAIN verdict.last_alert_at
    /\ _blocked_alerts[Len(_blocked_alerts)].reason = "cooldown"

\* C32: a transient failure of an attempt (HTTP error, timeout, exception) is
\* followed by the backoff and a further attempt as long as no more than
\* RPC_MAX_RETRIES attempts of the call have failed, so that a success of the
\* next attempt is returned; the call does not return None before that.
C32_FailedAttemptIsRetried ==
    [][\A t \in DOMAIN calls :
          (calls[t].pc = "backoff" /\ calls[t].attempt + 1 <= RPC_MAX_RETRIES
              /\ calls'[t] # calls[t])
          => calls'[t].pc = "attempt"]_vars

\* a call never makes more than RPC_MAX_RETRIES attempts
C32_AttemptsBounded == \A t \in DOMAIN calls : calls[t].attempt < RPC_MAX_RETRIES

DiscordPosts == {i \in DOMAIN outbound : outbound[i].kind = "discord"}

\* C33: when the first webhook POST for an alert fails, send_discord_alert_async
\* makes exactly one further attempt; the wallet's last-failure instant is
\* recorded only when that retry fails too, and is not when either attempt is
\* answered 200/204.
C33_OneRetryBeforeBreaker ==
    \A i \in DiscordPosts :
        /\ outbound[i].posts = (IF outbound[i].statuses[1] THEN 1 ELSE 2)
        /\ i = Len(outbound) /\ outbound[i].at = now
           => ((outbound[i].wallet \in DOMAIN _last_failure
                   /\ _last_failure[outbound[i].wallet] = now)
               <=> (~outbound[i].statuses[1] /\ ~outbound[i].statuses[2]))

\* what the code does: no further attempt, the first failure is recorded
C33_NoRetry ==
    \A i \in DiscordPosts :
        /\ outbound[i].posts = 1
        /\ i = Len(outbound) /\ outbound[i].at = now
           => ((outbound[i].wallet \in DOMAIN _last_failure
                   /\ _last_failure[outbound[i].wallet] = now)
               <=> ~outbound[i].statuses[1])

DedupKey(r) == <<r.wallet, r.signature, r.profit>>

Deduplicated(key) ==
    key \in DOMAIN _sent_alerts /\ now - _sent_alerts[key] < DISCORD_DEDUP_SEC

\* a step of send_discord_alert_async: the alert branch got to the webhook
\* fan-out and left a trace
DiscordCall ==
    /\ fanout'.invoked
    /\ DISCORD_WEBHOOK
    /\ now' = now
    /\ <<fanout, _sent_alerts, _last_failure, outbound>>'
          # <<fanout, _sent_alerts, _last_failure, outbound>>

\* C40: every call of send_discord_alert_async that is not deduplicated records
\* now under its content key (wallet, signature, int(profit*100)), whether the
\* per-wallet circuit drops it, the POST fails or it succeeds, and a call posts
\* only if it is not deduplicated; hence two POSTs for one content key are never
\* less than the dedup window (30 s) apart.
C40_DedupRecordedBeforeSend ==
    [][/\ (DiscordCall /\ ~Deduplicated(DedupKey(fanout')))
          => /\ DedupKey(fanout') \in DOMAIN _sent_alerts'
             /\ _sent_alerts'[DedupKey(fanout')] = now
       /\ (DiscordCall /\ Deduplicated(DedupKey(fanout')))
          => UNCHANGED <<_sent_alerts, _last_failure, outbound>>
       /\ \A i, j \in DiscordPosts' :
             (i < j /\ DedupKey(outbound'[i]) = DedupKey(outbound'[j]))
             => outbound'[j].at - outbound'[i].at >= DISCORD_DEDUP_SEC]_vars

\* a call dropped by the wallet's circuit has recorded its key all the same: the
\* wallet failed at this instant and a second alert of it, not yet sent, is in
\* the dedup map with no POST of its own
C40_Witness ==
    /\ fanout.invoked
    /\ DISCORD_WEBHOOK
    /\ fanout.wallet \in DOMAIN _last_failure
    /\ _last_failure[fanout.wallet] = now
    /\ DedupKey(fanout) \in DOMAIN _sent_alerts
    /\ _sent_alerts[DedupKey(fanout)] = now
    /\ \A i \in DiscordPosts : DedupKey(outbound[i]) # DedupKey(fanout)
    /\ DiscordPosts # {}

\* the wallets a step takes out of the watchlist
Removed == {v \in Addresses : v \in Range(watchlist) /\ v \notin Range(watchlist')}

Pos(s, x) == CHOOSE i \in DOMAIN s : s[i] = x

\* C34: eviction goes in least-recently-accessed order. When a step removes
\* wallets, every wallet that stays has a usage entry (its last access is more
\* recent than that of each removed one), the removed ones came before the
\* staying ones in the usage order, and the wallet registered last stays.
C34_EvictsLeastRecentlyAccessed ==
    [][Removed # {} =>
          /\ _watchlist_usage' # <<>>
          /\ Range(watchlist') = Range(_watchlist_usage')
          /\ Removed \cap Range(_watchlist_usage') = {}
          /\ \A v \in Removed \cap Range(_watchlist_usage) :
                \A k \in Range(_watchlist_usage') \cap Range(_watchlist_usage) :
                   k # _watchlist_usage'[Len(_watchlist_usage')]
                   => Pos(_watchlist_usage, v) < Pos(_watchlist_usage, k)]_vars

\* C36: the watchlist holds no address twice and the watched wallets are
\* exactly the keys of the LRU usage map.
C36_WatchlistMatchesUsage ==
    /\ \A i, j \in DOMAIN watchlist : watchlist[i] = watchlist[j] => i = j
    /\ Range(watchlist) = Range(_watchlist_usage)

\* C37: a wallet that is not in the watchlist when its scan task, scheduled
\* before its eviction, enters the semaphore section is not put back by that
\* task.
C37_EvictedNotRestoredByOwnScan ==
    [][\A w \in DOMAIN scheduled :
          (scheduled[w] = "waiting" /\ w \in DOMAIN scheduled' /\ scheduled'[w] = "running"
              /\ w \notin Range(watchlist))
          => w \notin Range(watchlist')]_vars

\* C35: in every state reached through mark_alert, garbage_collect_state and
\* load_state the seen-signature map is in non-decreasing timestamp order, so
\* that a garbage collection run now, which stops at the first unexpired
\* entry, leaves no expired entry behind.
C35_SeenOrderedByTimestamp ==
    /\ \A i, j \in DOMAIN _seen_signatures :
          i < j => _seen_signatures[i][2] <= _seen_signatures[j][2]
    /\ \A e \in Range(garbage_collect_state(now).seen) : ~(e[2] < now - STATE_TTL_SECONDS)

\* two signatures marked at different times, saved and loaded again by a
\* second start
C35_Witness ==
    /\ starts = 2
    /\ loop # "stopped"
    /\ Len(_seen_signatures) >= 2
    /\ _seen_signatures[1][2] < _seen_signatures[Len(_seen_signatures)][2]

-----------------------------------------------------------------------------
(* Auto-promotion and the baseline filter (wallet_monitor.py 1501-1557, 1748-1787) *)

\* a batch that passes every filter but the baseline's
GoodProfit == PROFIT_ALERT_THRESHOLD

MaxPromotedBatches == 1     \* batches that go through the filters beside the promotions

\* load_initial_data: df holds the rows of the data file, the watchlist the first
\* WATCHLIST_MAX_SIZE of those that pass the filters
InitPromotion ==
    /\ now = StartClock
    /\ ServiceIdle
    /\ RpcIdle
    /\ chain = [w \in Wallets |-> <<>>]
    /\ StateIdle
    /\ alerts = <<>>
    /\ alerts_queue = <<>>
    /\ emit = <<>>
    /\ primaries = [s \in SigSet |-> 0]
    /\ TaskIdle
    /\ \E n \in 0..MaxFiltered : \E filtered \in [1..n -> Addresses] :
          LET top == Take(filtered, WATCHLIST_MAX_SIZE)
              r == RegisterAll(top, top, <<>>)
          IN  /\ watchlist = r.watchlist
              /\ _watchlist_usage = r.usage
              /\ df = Range(filtered)
    /\ scheduled = <<>>
    /\ evicted = {}
    /\ promoted = {}
    /\ GcIdle
    /\ StoreIdle
    /\ DispatchIdle
    /\ LateIdle

\* the batch loop of a running scan, for a batch of one signature that would pass
\* the profit and confidence filters
PromotionBatch(wallet) ==
    /\ wallet \in DOMAIN scheduled
    /\ scheduled[wallet] = "running"
    /\ Len(alerts) + Len(_blocked_alerts) < MaxPromotedBatches
    /\ GauntletBatch(wallet, <<Sigs[1]>>, TRUE, GoodProfit, "high")

NextPromotion ==
    \/ GatherScans
    \/ \E wallet \in Addresses : ScanEnter(wallet)
    \/ \E wallet \in Addresses, addr \in Addresses : AutoPromote(wallet, addr)
    \/ \E wallet \in Addresses : ScanReturn(wallet)
    \/ \E wallet \in Addresses : PromotionBatch(wallet)

SpecPromotion == InitPromotion /\ [][NextPromotion]_vars

\* a batch has gone through the filters in this step
BatchStep == <<verdict, alerts, _blocked_alerts>>' # <<verdict, alerts, _blocked_alerts>>

\* C38: a wallet inserted by auto-promotion never emits an alert while a
\* baseline filter is above zero: each of its batches is rejected by the
\* baseline filter with reason wallet_filtered.
C38_PromotedWalletNeverAlerts ==
    [][(BatchStep /\ verdict'.wallet \in promoted)
          => /\ alerts' = alerts
             /\ _blocked_alerts' = Append(_blocked_alerts, Blocked(verdict'.wallet, "wallet_filtered"))]_vars

\* C38 as the code has it: the same for a promoted wallet with no row of passing
\* baselines in df, that is one that gets or has baselines below the filters; a
\* promoted wallet whose row passes them (a wallet of the data file that was
\* evicted or was beyond the cap) keeps its row and is not rejected by the
\* baseline filter.
C38_PromotedWithoutBaselineNeverAlerts ==
    [][(BatchStep /\ verdict'.wallet \in promoted)
          => IF verdict'.wallet \notin df
             THEN /\ alerts' = alerts
                  /\ _blocked_alerts' =
                        Append(_blocked_alerts, Blocked(verdict'.wallet, "wallet_filtered"))
             ELSE /\ _blocked_alerts' # _blocked_alerts
                     => _blocked_alerts'[Len(_blocked_alerts')].reason # "wallet_filtered"]_vars

\* a promoted wallet outside the data file had a batch rejected by the baseline
\* filter
C38_Witness ==
    /\ verdict # NoVerdict
    /\ verdict.wallet \in promoted
    /\ verdict.wallet \notin df
    /\ _blocked_alerts # <<>>
    /\ _blocked_alerts[Len(_blocked_alerts)] = Blocked(verdict.wallet, "wallet_filtered")

-----------------------------------------------------------------------------
(* Increments over the scans of a wallet *)

\* how many of the wallet's scans selected the signature into their increment
Selections(wallet, sig) ==
    Cardinality({i \in DOMAIN picked[wallet] : sig \in Range(picked[wallet][i])})

\* the wallet's last-seen signature is in the list the RPC returns for it
LastSeenInLookback(wallet) ==
    /\ wallet \in DOMAIN _last_sig_by_wallet
    /\ _last_sig_by_wallet[wallet] \in Range(Take(chain[wallet], TX_LOOKBACK))

\* C39: for a wallet whose last-seen signature stays within the lookback list, each
\* signature is selected into an increment by at most one scan; once the head has
\* advanced past it no later scan selects it, whether or not its batch alerted.
C39_SelectedByAtMostOneScan ==
    \A w \in Wallets, sig \in SigSet : Selections(w, sig) <= 1

\* two scans of W1 selected s1 and then s2, the head stands on s2 with s1 still in the
\* lookback list, and s1 was never marked: its batch was blocked or its fetch failed
C39_Witness ==
    /\ picked["W1"] = << <<Sigs[1]>>, <<Sigs[2]>> >>
    /\ LastSeenInLookback("W1")
    /\ _last_sig_by_wallet["W1"] = Sigs[2]
    /\ Sigs[1] \in Range(Take(chain["W1"], TX_LOOKBACK))
    /\ Sigs[1] \notin SeenKeys(_seen_signatures)
    /\ pc["W1"] = "idle"
    /\ loop = "gather"

====
